---- MODULE Spec2Model ----
(***************************************************************************)
(* Verification model of SimpleImageViewer's front end: the application    *)
(* state context (edit history, current image, directory navigation), the  *)
(* immutability-checking transform wrappers of api/tauri.ts and the        *)
(* asynchronous handlers of the viewer that call them.                     *)
(*                                                                         *)
(* An ImageData object is modelled by its value (its six fields).  No code *)
(* of the front end writes a field of an ImageData object after it was     *)
(* built, so which objects share a value is not observable; the one object *)
(* whose identity matters, the input a pending transform call closed over, *)
(* is a cell of its handler.                                               *)
(***************************************************************************)
EXTENDS Integers, Sequences, FiniteSets, TLC

\* ------------------------------------------------------------------------
\* Bounds of the model
\* ------------------------------------------------------------------------
\* longest edit history a handler may build
MaxHist == 3
\* most asynchronous handlers in flight at once
MaxPending == 1

\* ------------------------------------------------------------------------
\* Values
\* ------------------------------------------------------------------------
\* state.error when there is none
NoError == "none"

\* state.currentImage when there is no image
Null == [path |-> "", width |-> 0, height |-> 0, format |-> "", data |-> 0, hasAlpha |-> FALSE]

\* no dialog is open
NoUi == [dialog |-> "none"]

\* the files of the directory the viewer works in
Paths == {"/d/a.png", "/d/b.jpg"}
DirListing == <<"/d/a.png", "/d/b.jpg">>
\* the files of a second directory
OtherListing == <<"/e/c.jpg", "/e/d.jpg", "/e/e.jpg">>
\* a location the user saves a copy to
CopyPath == "/d/copy.png"

\* what the backend decodes from a file (load_image)
FileImage(p) ==
  IF p = "/d/a.png"
  THEN [path |-> p, width |-> 2, height |-> 1, format |-> "PNG", data |-> 0, hasAlpha |-> TRUE]
  ELSE [path |-> p, width |-> 1, height |-> 1, format |-> "JPEG", data |-> 8, hasAlpha |-> FALSE]

\* ------------------------------------------------------------------------
\* State
\* ------------------------------------------------------------------------
VARIABLES
  state,      \* ApplicationState of AppStateProvider
  pending,    \* asynchronous handlers in flight, each at an await
  lastOp,     \* the operation performed by the last step and its outcome
  ui          \* local state (useState) of the open dialog, NoUi when none is open

vars == <<state, pending, lastOp, ui>>

initialState ==
  [currentImage |-> Null,
   imageHistory |-> <<>>,
   currentHistoryIndex |-> -1,
   directoryImages |-> <<>>,
   currentImageIndex |-> -1,
   isLoading |-> FALSE,
   error |-> NoError]

\* ------------------------------------------------------------------------
\* utils/imageData.ts
\* ------------------------------------------------------------------------
\* a new object carrying the six fields of the argument
deepCopyImageData(imageData) ==
  [path |-> imageData.path,
   width |-> imageData.width,
   height |-> imageData.height,
   format |-> imageData.format,
   data |-> imageData.data,
   hasAlpha |-> imageData.hasAlpha]

areImageDataEqual(original, current) ==
  /\ original.path = current.path
  /\ original.width = current.width
  /\ original.height = current.height
  /\ original.format = current.format
  /\ original.data = current.data
  /\ original.hasAlpha = current.hasAlpha

\* ------------------------------------------------------------------------
\* AppStateContext reducers: the updater functions handed to setState
\* ------------------------------------------------------------------------
setCurrentImage(st, image) ==
  [st EXCEPT !.currentImage = IF image # Null THEN deepCopyImageData(image) ELSE Null]

\* faulty variant: the entries after the pointer survive the push
AddToHistoryKeepsRedo(st, image) ==
  LET imageCopy == deepCopyImageData(image)
      newHistory == SubSeq(st.imageHistory, 1, st.currentHistoryIndex + 1)
                      \o <<imageCopy>>
                      \o SubSeq(st.imageHistory, st.currentHistoryIndex + 2, Len(st.imageHistory))
  IN [st EXCEPT !.currentImage = imageCopy,
                !.imageHistory = newHistory,
                !.currentHistoryIndex = st.currentHistoryIndex + 1]

\* faulty variant: the copy is put in front of the kept entries
AddToHistoryShiftsEntries(st, image) ==
  LET imageCopy == deepCopyImageData(image)
      newHistory == <<imageCopy>> \o SubSeq(st.imageHistory, 1, st.currentHistoryIndex + 1)
  IN [st EXCEPT !.currentImage = imageCopy,
                !.imageHistory = newHistory,
                !.currentHistoryIndex = Len(newHistory) - 1]

\* faulty variant: the index is set to the length
AddToHistoryIndexOffByOne(st, image) ==
  LET imageCopy == deepCopyImageData(image)
      newHistory == Append(SubSeq(st.imageHistory, 1, st.currentHistoryIndex + 1), imageCopy)
  IN [st EXCEPT !.currentImage = imageCopy,
                !.imageHistory = newHistory,
                !.currentHistoryIndex = Len(newHistory)]

\* addToHistory(image): slice(0, currentHistoryIndex + 1), push the copy;
\* the copy is both the new entry and the current image
addToHistory(st, image) ==
  LET imageCopy == deepCopyImageData(image)
      newHistory == Append(SubSeq(st.imageHistory, 1, st.currentHistoryIndex + 1), imageCopy)
  IN [st EXCEPT !.currentImage = imageCopy,
                !.imageHistory = newHistory,
                !.currentHistoryIndex = Len(newHistory) - 1]

\* faulty variant: undo moves the index and leaves currentImage
NavigateHistoryKeepsImage(st, direction) ==
  IF direction = "undo" /\ st.currentHistoryIndex > 0
  THEN [st EXCEPT !.currentHistoryIndex = st.currentHistoryIndex - 1]
  ELSE IF direction = "redo" /\ st.currentHistoryIndex < Len(st.imageHistory) - 1
  THEN LET newIndex == st.currentHistoryIndex + 1
       IN [st EXCEPT !.currentImage = st.imageHistory[newIndex + 1],
                     !.currentHistoryIndex = newIndex]
  ELSE st

\* faulty variant: redo jumps to the last entry
NavigateHistoryRedoToLast(st, direction) ==
  IF direction = "undo" /\ st.currentHistoryIndex > 0
  THEN LET newIndex == st.currentHistoryIndex - 1
       IN [st EXCEPT !.currentImage = st.imageHistory[newIndex + 1],
                     !.currentHistoryIndex = newIndex]
  ELSE IF direction = "redo" /\ st.currentHistoryIndex < Len(st.imageHistory) - 1
  THEN LET newIndex == Len(st.imageHistory) - 1
       IN [st EXCEPT !.currentImage = st.imageHistory[newIndex + 1],
                     !.currentHistoryIndex = newIndex]
  ELSE st

\* faulty variant: undo drops the entries after the new index
NavigateHistoryUndoDropsTail(st, direction) ==
  IF direction = "undo" /\ st.currentHistoryIndex > 0
  THEN LET newIndex == st.currentHistoryIndex - 1
       IN [st EXCEPT !.currentImage = st.imageHistory[newIndex + 1],
                     !.imageHistory = SubSeq(st.imageHistory, 1, newIndex + 1),
                     !.currentHistoryIndex = newIndex]
  ELSE IF direction = "redo" /\ st.currentHistoryIndex < Len(st.imageHistory) - 1
  THEN LET newIndex == st.currentHistoryIndex + 1
       IN [st EXCEPT !.currentImage = st.imageHistory[newIndex + 1],
                     !.currentHistoryIndex = newIndex]
  ELSE st

\* navigateHistory(direction); the code's indices are 0-based, a TLA+
\* sequence starts at 1
navigateHistory(st, direction) ==
  IF direction = "undo" /\ st.currentHistoryIndex > 0
  THEN LET newIndex == st.currentHistoryIndex - 1
       IN [st EXCEPT !.currentImage = st.imageHistory[newIndex + 1],
                     !.currentHistoryIndex = newIndex]
  ELSE IF direction = "redo" /\ st.currentHistoryIndex < Len(st.imageHistory) - 1
  THEN LET newIndex == st.currentHistoryIndex + 1
       IN [st EXCEPT !.currentImage = st.imageHistory[newIndex + 1],
                     !.currentHistoryIndex = newIndex]
  ELSE st

\* faulty variant: no test for a null currentImage
UpdateCurrentImagePathUnguarded(st, newPath) ==
  [st EXCEPT !.currentImage = [st.currentImage EXCEPT !.path = newPath]]

\* updateCurrentImagePath(newPath): {...prev.currentImage, path: newPath}
updateCurrentImagePath(st, newPath) ==
  IF st.currentImage = Null
  THEN st
  ELSE [st EXCEPT !.currentImage = [st.currentImage EXCEPT !.path = newPath]]

setDirectoryImages(st, images) == [st EXCEPT !.directoryImages = images]

\* faulty variant: the index the viewer was at is kept
KeepImageIndex(st, index) == st

setCurrentImageIndex(st, index) == [st EXCEPT !.currentImageIndex = index]

\* navigateImage(direction): cyclic step of currentImageIndex
navigateImage(st, direction) ==
  IF Len(st.directoryImages) = 0
  THEN st
  ELSE IF direction = "next"
  THEN [st EXCEPT !.currentImageIndex = (st.currentImageIndex + 1) % Len(st.directoryImages)]
  ELSE [st EXCEPT !.currentImageIndex =
          IF st.currentImageIndex <= 0
          THEN Len(st.directoryImages) - 1
          ELSE st.currentImageIndex - 1]

setLoading(st, loading) == [st EXCEPT !.isLoading = loading]

setError(st, e) == [st EXCEPT !.error = e]

clearError(st) == [st EXCEPT !.error = NoError]

\* ------------------------------------------------------------------------
\* The Tauri backend, seen through invoke()
\* ------------------------------------------------------------------------
EditOps == {"resize", "convert", "crop", "setBackground",
            "rotateLeft", "rotateRight", "applyStickers", "applyTexts"}

\* pixel data after a quarter turn; the low two bits count quarter turns
Rotated(d, clockwise) == (d - (d % 4)) + (((d % 4) + (IF clockwise THEN 1 ELSE 3)) % 4)

\* pixel data after an operation that redraws the pixels
Redrawn(d) == IF (d \div 4) % 2 = 1 THEN d ELSE d + 4

\* set_background rejects an image without alpha channel
BackendRejects(op, img) == op = "setBackground" /\ ~img.hasAlpha

\* the image a backend command answers with when it succeeds
BackendResult(op, img) ==
  CASE op = "resize" -> [img EXCEPT !.width = 1, !.height = 1, !.data = Redrawn(img.data)]
    [] op = "crop" -> [img EXCEPT !.width = 1, !.height = 1, !.data = Redrawn(img.data)]
    [] op = "convert" -> [img EXCEPT !.format = "JPEG", !.hasAlpha = FALSE, !.data = Redrawn(img.data)]
    [] op = "setBackground" -> [img EXCEPT !.hasAlpha = FALSE, !.data = Redrawn(img.data)]
    [] op = "rotateLeft" ->
         [img EXCEPT !.width = img.height, !.height = img.width, !.data = Rotated(img.data, FALSE)]
    [] op = "rotateRight" ->
         [img EXCEPT !.width = img.height, !.height = img.width, !.data = Rotated(img.data, TRUE)]
    [] OTHER -> [img EXCEPT !.data = Redrawn(img.data)]

\* ------------------------------------------------------------------------
\* Handlers
\* ------------------------------------------------------------------------
Remove(pend, i) == SubSeq(pend, 1, i - 1) \o SubSeq(pend, i + 1, Len(pend))

\* what the last step did: the handler or context function, how it ended,
\* and how many history entries it discarded
Op(name, outcome) == [name |-> name, outcome |-> outcome, discarded |-> 0]

\* a handler in flight, suspended at an await
Handler(kind, op, path, call, saveAsCopy) ==
  [kind |-> kind, op |-> op, path |-> path, call |-> call, saveAsCopy |-> saveAsCopy]

\* faulty variant: the wrapper writes the width into its input
TransformCallWritesInput(imageData) ==
  [given |-> imageData,
   originalSnapshot |-> deepCopyImageData(imageData),
   input |-> [imageData EXCEPT !.width = 1]]

\* A wrapper of api/tauri.ts up to its await: the snapshot it took and the
\* input object as the wrapper left it (given: its value when passed in).
TransformCall(imageData) ==
  [given |-> imageData,
   originalSnapshot |-> deepCopyImageData(imageData),
   input |-> imageData]

\* the call field of a handler that called no wrapper
NoCall == [given |-> Null, originalSnapshot |-> Null, input |-> Null]

\* ------------------------------------------------------------------------
\* Initial state
\* ------------------------------------------------------------------------
Init ==
  /\ state = initialState
  /\ pending = <<>>
  /\ lastOp = Op("init", "ok")
  /\ ui = NoUi

\* faulty variant: the catch block also drops the current image
FailedClearsImage(st, i, name, message) ==
  /\ state' = setLoading(setError(setCurrentImage(st, Null), message), FALSE)
  /\ pending' = Remove(pending, i)
  /\ lastOp' = Op(name, "failed")

\* faulty variant: the catch block without the finally block
FailedKeepsLoading(st, i, name, message) ==
  /\ state' = setError(st, message)
  /\ pending' = Remove(pending, i)
  /\ lastOp' = Op(name, "failed")

\* the catch and finally blocks shared by the handlers
Failed(st, i, name, message) ==
  /\ state' = setLoading(setError(st, message), FALSE)
  /\ pending' = Remove(pending, i)
  /\ lastOp' = Op(name, "failed")

\* setCurrentImage(image); addToHistory(image); and the finally block
Commit(st, i, image, name) ==
  /\ st.currentHistoryIndex + 2 <= MaxHist
  /\ state' = setLoading(addToHistory(setCurrentImage(st, image), image), FALSE)
  /\ pending' = Remove(pending, i)
  /\ lastOp' = [Op(name, "ok") EXCEPT
                  !.discarded = Len(st.imageHistory) - (st.currentHistoryIndex + 1)]

\* ------------------------------------------------------------------------
\* ImageViewer.loadImageFromPath (file dialog, drag and drop, favorites)
\* ------------------------------------------------------------------------
\* up to the first await: setLoading(true); clearError(); loadImage(filePath)
LoadStart(filePath) ==
  /\ UNCHANGED ui
  /\ state' = clearError(setLoading(state, TRUE))
  /\ pending' = Append(pending, Handler("load", "load", filePath, NoCall, FALSE))
  /\ lastOp' = Op("start", "ok")

IndexOf(seq, x) ==
  IF \E k \in 1..Len(seq) : seq[k] = x
  THEN (CHOOSE k \in 1..Len(seq) : seq[k] = x /\ \A j \in 1..(k - 1) : seq[j] # x) - 1
  ELSE -1

\* getDirectoryImages(dirPath) for the directory of filePath: the image
\* files of that directory, in the order the backend lists them
getDirectoryImages(filePath) ==
  IF filePath \in Paths THEN DirListing ELSE OtherListing

\* loadImage and getDirectoryImages have answered (nothing is written
\* between the two awaits).  On success: setDirectoryImages,
\* setCurrentImageIndex, setCurrentImage, addToHistory; on failure setError;
\* then the finally block.
LoadCompletes(i, ok) ==
  /\ i \in 1..Len(pending)
  /\ pending[i].kind = "load"
  /\ IF ok
     THEN LET dirImages == getDirectoryImages(pending[i].path)
              imageIndex == IndexOf(dirImages, pending[i].path)
          IN Commit(setCurrentImageIndex(setDirectoryImages(state, dirImages),
                                         IF imageIndex >= 0 THEN imageIndex ELSE 0),
                    i, FileImage(pending[i].path), "load")
     ELSE Failed(state, i, "load", "operation failed")

\* loadImageFromPath completes; no zoom is involved
LoadDone(i, ok) ==
  /\ UNCHANGED ui
  /\ LoadCompletes(i, ok)

\* ------------------------------------------------------------------------
\* Calls of the context's history functions
\* ------------------------------------------------------------------------
NavigateHistory(direction) ==
  /\ UNCHANGED ui
  /\ state' = navigateHistory(state, direction)
  /\ lastOp' = Op(direction, "ok")
  /\ UNCHANGED pending

UpdateCurrentImagePath(newPath) ==
  /\ UNCHANGED ui
  /\ state' = updateCurrentImagePath(state, newPath)
  /\ lastOp' = Op("updateCurrentImagePath", "ok")
  /\ UNCHANGED pending

\* ------------------------------------------------------------------------
\* useImageNavigation.goToPrevious / goToNext
\* ------------------------------------------------------------------------
\* the index the handler computes from the state it closed over
NeighbourIndex(st, direction) ==
  IF direction = "next"
  THEN (st.currentImageIndex + 1) % Len(st.directoryImages)
  ELSE IF st.currentImageIndex <= 0
       THEN Len(st.directoryImages) - 1
       ELSE st.currentImageIndex - 1

\* up to the await: setLoading(true); setError(null); navigateImage(dir);
\* loadImage(imagePath).  Both call sites require canNavigate.
NavStart(direction) ==
  /\ UNCHANGED ui
  /\ Len(state.directoryImages) > 1
  /\ LET imagePath == state.directoryImages[NeighbourIndex(state, direction) + 1]
     IN pending' = Append(pending, Handler("nav", "nav", imagePath, NoCall, FALSE))
  /\ state' = navigateImage(clearError(setLoading(state, TRUE)), direction)
  /\ lastOp' = Op("start", "ok")

\* loadImage answers: setCurrentImage, addToHistory, or setError; then the
\* finally block
NavDone(i, ok) ==
  /\ UNCHANGED ui
  /\ i \in 1..Len(pending)
  /\ pending[i].kind = "nav"
  /\ IF ok
     THEN Commit(state, i, FileImage(pending[i].path), "nav")
     ELSE Failed(state, i, "nav", "operation failed")

\* ------------------------------------------------------------------------
\* The edit handlers of ImageViewer (handleResizeConfirm,
\* handleConvertConfirm, handleCropConfirm, handleSetBackgroundConfirm,
\* handleStickerConfirm, handleTextConfirm, handleRotateLeft,
\* handleRotateRight) around the wrappers of api/tauri.ts
\* ------------------------------------------------------------------------
\* the operations the handlers of the default specification are started with
CoreOps == {"resize", "rotateRight"}

IsRotate(op) == op \in {"rotateLeft", "rotateRight"}

\* up to the invoke inside the wrapper: setLoading(true); clearError();
\* originalSnapshot = deepCopyImageData(imageData); invoke(...).
\* The rotate handlers are reached only through the toolbar, disabled
\* while state.isLoading, and always overwrite; the others are reached
\* through the confirm button of a dialog that is already open.
EditStart(op, saveAsCopy) ==
  /\ UNCHANGED ui
  /\ state.currentImage # Null
  /\ IsRotate(op) => ~saveAsCopy /\ ~state.isLoading
  /\ state' = clearError(setLoading(state, TRUE))
  /\ pending' = Append(pending, Handler("edit", op, "", TransformCall(state.currentImage), saveAsCopy))
  /\ lastOp' = Op("start", "ok")

\* faulty variant: the comparison is left out
ImmutabilityNeverViolated(call) == FALSE

\* the wrapper's check after the invoke has answered
ImmutabilityViolated(call) == ~areImageDataEqual(call.originalSnapshot, call.input)

\* how the awaits of an edit handler can be answered
EditAnswers == {"invokeFailed", "saveCancelled", "saveFailed", "saved"}

\* The rest of an edit handler, from the answer of invoke to the finally
\* block: a rejected invoke throws out of the wrapper; otherwise the wrapper
\* compares the input with its snapshot and throws or returns the result;
\* the handler then asks for a path (save as copy; null cancels), saves,
\* and after overwriting calls setCurrentImage(result); addToHistory(result).
EditCompletes(i, answer) ==
  /\ i \in 1..Len(pending)
  /\ pending[i].kind = "edit"
  /\ answer # "invokeFailed" => ~BackendRejects(pending[i].op, pending[i].call.originalSnapshot)
  /\ answer = "saveCancelled" => pending[i].saveAsCopy
  /\ CASE answer = "invokeFailed" -> Failed(state, i, "edit", "operation failed")
       [] answer # "invokeFailed" /\ ImmutabilityViolated(pending[i].call) ->
            /\ state' = setLoading(setError(state, "Immutability violation"), FALSE)
            /\ pending' = Remove(pending, i)
            /\ lastOp' = Op("edit", "violation")
       [] answer = "saveCancelled" /\ ~ImmutabilityViolated(pending[i].call) ->
            /\ state' = setLoading(state, FALSE)
            /\ pending' = Remove(pending, i)
            /\ lastOp' = Op("edit", "cancelled")
       [] answer = "saveFailed" /\ ~ImmutabilityViolated(pending[i].call) ->
            Failed(state, i, "edit", "operation failed")
       [] answer = "saved" /\ ~ImmutabilityViolated(pending[i].call) ->
            IF pending[i].saveAsCopy
            THEN /\ state' = setLoading(state, FALSE)
                 /\ pending' = Remove(pending, i)
                 /\ lastOp' = Op("edit", "copied")
            ELSE Commit(state, i, BackendResult(pending[i].op, pending[i].call.input), "edit")

\* an edit handler completes; the dialogs' own state is not involved
EditDone(i, answer) ==
  /\ UNCHANGED ui
  /\ EditCompletes(i, answer)

\* ------------------------------------------------------------------------
\* A write to the object a pending transform call was given, as
\* testValidateEditImmutability simulates it (mutatedOriginal.width = 1000)
\* ------------------------------------------------------------------------
MutatedWidth == 1000

MutateInput(i) ==
  /\ UNCHANGED ui
  /\ i \in 1..Len(pending)
  /\ pending[i].kind = "edit"
  /\ pending[i].call.input.width # MutatedWidth
  /\ pending' = [pending EXCEPT ![i].call.input.width = MutatedWidth]
  /\ lastOp' = Op("mutate", "ok")
  /\ UNCHANGED state

\* ------------------------------------------------------------------------
\* Specifications
\* ------------------------------------------------------------------------
\* the inputs a handler may be started with: all of them while fewer than
\* limit handlers are in flight, none otherwise
Startable(limit, inputs) == IF Len(pending) < limit THEN inputs ELSE {}

Next ==
  \/ \E p \in Startable(MaxPending, Paths) : LoadStart(p)
  \/ \E i \in 1..MaxPending, ok \in BOOLEAN : LoadDone(i, ok)
  \/ \E d \in Startable(MaxPending, {"prev", "next"}) : NavStart(d)
  \/ \E i \in 1..MaxPending, ok \in BOOLEAN : NavDone(i, ok)
  \/ \E op \in Startable(MaxPending, CoreOps), saveAsCopy \in BOOLEAN : EditStart(op, saveAsCopy)
  \/ \E i \in 1..MaxPending, answer \in EditAnswers : EditDone(i, answer)
  \/ \E d \in {"undo", "redo"} : NavigateHistory(d)

Spec == Init /\ [][Next]_vars

\* Every await of a handler is answered: the backend resolves or rejects
\* each invoke, and a file dialog returns a path or null.
Answered ==
  /\ WF_vars(\E i \in 1..MaxPending, ok \in BOOLEAN : LoadDone(i, ok))
  /\ WF_vars(\E i \in 1..MaxPending, ok \in BOOLEAN : NavDone(i, ok))
  /\ WF_vars(\E i \in 1..MaxPending, answer \in EditAnswers : EditDone(i, answer))

SpecLive == Spec /\ Answered

\* the program with calls of updateCurrentImagePath
NextPath ==
  \/ Next
  \/ UpdateCurrentImagePath(CopyPath)

SpecPath == Init /\ [][NextPath]_vars

\* the program with writes to the inputs of pending transform calls injected
NextFault ==
  \/ Next
  \/ \E i \in 1..MaxPending : MutateInput(i)

SpecFault == Init /\ [][NextFault]_vars

\* loads and every edit handler, each of the eight transform operations
NextAllOps ==
  \/ \E p \in Startable(MaxPending, Paths) : LoadStart(p)
  \/ \E i \in 1..MaxPending, ok \in BOOLEAN : LoadDone(i, ok)
  \/ \E op \in Startable(MaxPending, EditOps), saveAsCopy \in BOOLEAN : EditStart(op, saveAsCopy)
  \/ \E i \in 1..MaxPending, answer \in EditAnswers : EditDone(i, answer)

SpecAllOps == Init /\ [][NextAllOps]_vars

\* most handlers in flight at once in the specification of overlapping handlers
MaxInFlight == 2

\* Overlapping handlers: loads, directory navigation and the two rotate
\* handlers, whose only entry is the toolbar (disabled while isLoading).
NextInFlight ==
  \/ \E p \in Startable(MaxInFlight, Paths) : LoadStart(p)
  \/ \E i \in 1..MaxInFlight, ok \in BOOLEAN : LoadDone(i, ok)
  \/ \E d \in Startable(MaxInFlight, {"prev", "next"}) : NavStart(d)
  \/ \E i \in 1..MaxInFlight, ok \in BOOLEAN : NavDone(i, ok)
  \/ \E op \in Startable(MaxInFlight, {"rotateLeft", "rotateRight"}) : EditStart(op, FALSE)
  \/ \E i \in 1..MaxInFlight, answer \in EditAnswers : EditDone(i, answer)

SpecInFlight == Init /\ [][NextInFlight]_vars

\* Loads from two directories of different size and directory navigation,
\* overlapping
NextDir ==
  \/ \E p \in Startable(MaxInFlight, Paths \cup {OtherListing[k] : k \in 1..Len(OtherListing)}) :
        LoadStart(p)
  \/ \E i \in 1..MaxInFlight, ok \in BOOLEAN : LoadDone(i, ok)
  \/ \E d \in Startable(MaxInFlight, {"prev", "next"}) : NavStart(d)
  \/ \E i \in 1..MaxInFlight, ok \in BOOLEAN : NavDone(i, ok)

SpecDir == Init /\ [][NextDir]_vars

\* ------------------------------------------------------------------------
\* CropDialog
\* ------------------------------------------------------------------------
\* largest pointer coordinate of a mouse event
MaxMouse == 4

\* where the pointer is when a mouse button goes down on a handle
MouseDownAt == [x |-> 2, y |-> 2]

\* the pointer positions of mouse move events
MousePoints == {[x |-> px, y |-> py] : px \in 0..MaxMouse, py \in 0..MaxMouse}

\* the images the dialog is opened on, and imageRef.current.clientWidth
CropImages ==
  {[path |-> "/d/c.png", width |-> 4, height |-> h, format |-> "PNG", data |-> 0, hasAlpha |-> TRUE] :
     h \in {2, 4}}

DisplayWidths == {2, 4, 8}

\* the state after an image was opened
Opened(image) ==
  addToHistory(setCurrentImage(
     setCurrentImageIndex(setDirectoryImages(initialState, <<image.path>>), 0), image), image)

Max(a, b) == IF a >= b THEN a ELSE b

Min(a, b) == IF a <= b THEN a ELSE b

\* Math.round(n / d) for d > 0: halves are rounded up
Round(n, d) == (2 * n + d) \div (2 * d)

Region(x, y, width, height) == [x |-> x, y |-> y, width |-> width, height |-> height]

\* no rectangle was handed to onConfirm
NoRegion == Region(-1, -1, -1, -1)

\* getImageScale() is displayWidth / imageData.width; a length v times the
\* scale is v * displayWidth / imageData.width, and v divided by the scale
\* and rounded is Round(v * imageData.width, displayWidth)
Scaled(u, v) == (v * u.displayWidth) \div u.imageData.width

Unscaled(u, v) == Round(v * u.imageData.width, u.displayWidth)

\* handleConfirm: the rectangle handed to onConfirm
ActualRegion(u) ==
  Region(Unscaled(u, u.cropRegion.x), Unscaled(u, u.cropRegion.y),
         Unscaled(u, u.cropRegion.width), Unscaled(u, u.cropRegion.height))

\* constrainRegion(region)
constrainRegion(u, region) ==
  LET maxWidth == Scaled(u, u.imageData.width)
      maxHeight == Scaled(u, u.imageData.height)
  IN Region(Max(0, Min(region.x, maxWidth - 1)),
            Max(0, Min(region.y, maxHeight - 1)),
            Max(1, Min(region.width, maxWidth - region.x)),
            Max(1, Min(region.height, maxHeight - region.y)))

\* useState initial values of the dialog
CropDialogOpened(imageData, displayWidth) ==
  LET cropRegion == Region(imageData.width \div 10, imageData.height \div 10,
                           (8 * imageData.width) \div 10, (8 * imageData.height) \div 10)
  IN [dialog |-> "crop",
      imageData |-> imageData,
      displayWidth |-> displayWidth,
      cropRegion |-> cropRegion,
      isDragging |-> FALSE,
      dragHandle |-> "null",
      dragStart |-> [x |-> 0, y |-> 0],
      initialRegion |-> cropRegion,
      requested |-> cropRegion,
      touched |-> FALSE,
      submitted |-> NoRegion]

DragHandles == {"move", "nw", "ne", "sw", "se", "n", "s", "e", "w"}

\* handleMouseMove: the region asked for before it is constrained
DraggedRegion(initialRegion, dragHandle, dx, dy) ==
  CASE dragHandle = "move" ->
         [initialRegion EXCEPT !.x = initialRegion.x + dx, !.y = initialRegion.y + dy]
    [] dragHandle = "nw" ->
         Region(initialRegion.x + dx, initialRegion.y + dy,
                initialRegion.width - dx, initialRegion.height - dy)
    [] dragHandle = "ne" ->
         Region(initialRegion.x, initialRegion.y + dy,
                initialRegion.width + dx, initialRegion.height - dy)
    [] dragHandle = "sw" ->
         Region(initialRegion.x + dx, initialRegion.y,
                initialRegion.width - dx, initialRegion.height + dy)
    [] dragHandle = "se" ->
         Region(initialRegion.x, initialRegion.y,
                initialRegion.width + dx, initialRegion.height + dy)
    [] dragHandle = "n" ->
         [initialRegion EXCEPT !.y = initialRegion.y + dy, !.height = initialRegion.height - dy]
    [] dragHandle = "s" ->
         [initialRegion EXCEPT !.height = initialRegion.height + dy]
    [] dragHandle = "e" ->
         [initialRegion EXCEPT !.width = initialRegion.width + dx]
    [] dragHandle = "w" ->
         [initialRegion EXCEPT !.x = initialRegion.x + dx, !.width = initialRegion.width - dx]

InitCrop ==
  /\ \E imageData \in CropImages, displayWidth \in DisplayWidths :
        /\ state = Opened(imageData)
        /\ ui = CropDialogOpened(imageData, displayWidth)
  /\ pending = <<>>
  /\ lastOp = Op("init", "ok")

CropDialogIdle == ui.dialog = "crop" /\ ui.submitted = NoRegion

\* handleMouseDown(e, handle)
CropMouseDown(handle) ==
  /\ CropDialogIdle
  /\ ~ui.isDragging
  /\ ui' = [ui EXCEPT !.isDragging = TRUE,
                      !.dragHandle = handle,
                      !.dragStart = MouseDownAt,
                      !.initialRegion = ui.cropRegion]
  /\ UNCHANGED <<state, pending, lastOp>>

\* handleMouseMove(e), registered while isDragging
CropMouseMove(e) ==
  /\ CropDialogIdle
  /\ ui.isDragging
  /\ LET dx == e.x - ui.dragStart.x
         dy == e.y - ui.dragStart.y
         newRegion == DraggedRegion(ui.initialRegion, ui.dragHandle, dx, dy)
     IN ui' = [ui EXCEPT !.cropRegion = constrainRegion(ui, newRegion),
                         !.requested = newRegion,
                         !.touched = TRUE]
  /\ UNCHANGED <<state, pending, lastOp>>

\* handleMouseUp
CropMouseUp ==
  /\ CropDialogIdle
  /\ ui.isDragging
  /\ ui' = [ui EXCEPT !.isDragging = FALSE, !.dragHandle = "null"]
  /\ UNCHANGED <<state, pending, lastOp>>

\* handleConfirm up to the call of onConfirm
CropConfirm ==
  /\ CropDialogIdle
  /\ ~ui.isDragging
  /\ ui' = [ui EXCEPT !.submitted = ActualRegion(ui)]
  /\ UNCHANGED <<state, pending, lastOp>>

NextCrop ==
  \/ \E handle \in DragHandles : CropMouseDown(handle)
  \/ \E e \in MousePoints : CropMouseMove(e)
  \/ CropMouseUp
  \/ CropConfirm

SpecCrop == InitCrop /\ [][NextCrop]_vars

\* ------------------------------------------------------------------------
\* StickerDialog
\* ------------------------------------------------------------------------
\* the number of stickers added while the dialog is open
MaxStickerAdds == 4

\* the widest sticker a resize is followed to
MaxStickerWidth == 60

\* Math.max(20, ...): the smallest width of a resized sticker
MinStickerWidth == 20

StickerImage ==
  [path |-> "/d/s.png", width |-> 100, height |-> 100, format |-> "PNG", data |-> 0, hasAlpha |-> TRUE]

\* imageRef.current.clientWidth in the sticker dialog
StickerDisplayWidths == {100, 200}

\* the files picked in the file input: content and natural size
StickerFiles ==
  {[imageData |-> "A", width |-> 30, height |-> 30],
   [imageData |-> "B", width |-> 60, height |-> 30]}

StickerMouseDownAt == [x |-> 40, y |-> 40]

StickerMousePoints == {[x |-> px, y |-> py] : px \in {0, 40, 60}, py \in {0, 40, 60}}

NoSticker == [id |-> 0]

NoMove == [dx |-> 0, dy |-> 0, moved |-> FALSE]

\* useState initial value of dragState
NoDrag ==
  [isDragging |-> FALSE, handle |-> "null", startX |-> 0, startY |-> 0,
   initialSticker |-> NoSticker]

\* useState initial values of the dialog
StickerDialogOpened(imageData, displayWidth) ==
  [dialog |-> "sticker",
   imageData |-> imageData,
   displayWidth |-> displayWidth,
   stickers |-> <<>>,
   dragState |-> NoDrag,
   showConfirm |-> FALSE,
   nextId |-> 1,
   lastMove |-> NoMove,
   submitted |-> <<>>,
   stickerParams |-> <<>>]

\* faulty variant: the render leaves the list in the order of the state
StickersInStateOrder(stickers) == stickers

\* stickers.sort((a, b) => a.zIndex - b.zIndex): a stable sort of the array
SortByZIndex(stickers) ==
  LET n == Len(stickers)
      rank(i) ==
        1 + Cardinality({j \in 1..n :
              \/ stickers[j].zIndex < stickers[i].zIndex
              \/ stickers[j].zIndex = stickers[i].zIndex /\ j < i})
  IN [k \in 1..n |-> stickers[CHOOSE i \in 1..n : rank(i) = k]]

\* the render after a state change sorts the array of the state in place
Rendered(u) == [u EXCEPT !.stickers = SortByZIndex(@)]

\* handleFileSelect, img.onload: the sticker made from the file
NewSticker(u, file) ==
  LET smaller == Min(u.imageData.width, u.imageData.height)
      fits == 10 * file.width <= 3 * smaller /\ 10 * file.height <= 3 * smaller
      wide == file.width > file.height
  IN [id |-> u.nextId,
      imageData |-> file.imageData,
      x |-> u.imageData.width \div 10,
      y |-> u.imageData.height \div 10,
      width |-> IF fits THEN file.width
                ELSE IF wide THEN Round(3 * smaller, 10)
                ELSE Round(3 * smaller * file.width, 10 * file.height),
      height |-> IF fits THEN file.height
                 ELSE IF wide THEN Round(3 * smaller * file.height, 10 * file.width)
                 ELSE Round(3 * smaller, 10),
      rotation |-> 0,
      zIndex |-> Len(u.stickers)]

\* handleStickerConfirm: stickers.map(sticker => ({image_data, x, y, ...}))
StickerParams(stickers) ==
  [k \in 1..Len(stickers) |->
     [image_data |-> stickers[k].imageData,
      x |-> stickers[k].x,
      y |-> stickers[k].y,
      width |-> stickers[k].width,
      height |-> stickers[k].height,
      rotation |-> stickers[k].rotation]]

InitSticker ==
  /\ state = Opened(StickerImage)
  /\ \E displayWidth \in StickerDisplayWidths :
        ui = StickerDialogOpened(StickerImage, displayWidth)
  /\ pending = <<>>
  /\ lastOp = Op("init", "ok")

\* handleFileSelect (reader.onload, img.onload) and the render that follows
StickerAdd(file) ==
  /\ ui.dialog = "sticker"
  /\ ui.nextId <= MaxStickerAdds
  /\ ui' = Rendered([ui EXCEPT !.stickers = Append(@, NewSticker(ui, file)),
                               !.nextId = @ + 1])
  /\ UNCHANGED <<state, pending, lastOp>>

\* handleDeleteSticker(stickerId) and the render that follows
StickerDelete(stickerId) ==
  /\ ui.dialog = "sticker"
  /\ \E k \in 1..Len(ui.stickers) : ui.stickers[k].id = stickerId
  /\ ui' = Rendered([ui EXCEPT !.stickers =
                        SelectSeq(@, LAMBDA sticker : sticker.id # stickerId)])
  /\ UNCHANGED <<state, pending, lastOp>>

\* executeSticker: onConfirm(stickers, saveAsCopy), and handleStickerConfirm
\* up to the call of applyStickers
ExecuteSticker(u) ==
  [u EXCEPT !.showConfirm = FALSE,
            !.submitted = u.stickers,
            !.stickerParams = StickerParams(u.stickers)]

\* handleConfirm(saveAsCopy)
StickerConfirm(saveAsCopy) ==
  /\ ui.dialog = "sticker"
  /\ Len(ui.stickers) > 0
  /\ ~ui.showConfirm
  /\ ui' = IF saveAsCopy THEN ExecuteSticker(ui) ELSE [ui EXCEPT !.showConfirm = TRUE]
  /\ UNCHANGED <<state, pending, lastOp>>

\* handleConfirmOverwrite
StickerConfirmOverwrite ==
  /\ ui.dialog = "sticker"
  /\ ui.showConfirm
  /\ ui' = ExecuteSticker(ui)
  /\ UNCHANGED <<state, pending, lastOp>>

\* handleCancelOverwrite
StickerCancelOverwrite ==
  /\ ui.dialog = "sticker"
  /\ ui.showConfirm
  /\ ui' = [ui EXCEPT !.showConfirm = FALSE]
  /\ UNCHANGED <<state, pending, lastOp>>

NextSticker ==
  \/ \E file \in StickerFiles : StickerAdd(file)
  \/ \E stickerId \in 1..MaxStickerAdds : StickerDelete(stickerId)
  \/ \E saveAsCopy \in BOOLEAN : StickerConfirm(saveAsCopy)
  \/ StickerConfirmOverwrite
  \/ StickerCancelOverwrite

SpecSticker == InitSticker /\ [][NextSticker]_vars

\* the handles of a sticker that act on mouse moves (the rotate handle is
\* click-only: its branch of handleMouseMove is empty)
StickerHandles == {"move", "nw", "ne", "sw", "se"}

\* faulty variant: the deltas are not oriented to the handle
SizeDeltaUnoriented(handle, dx, dy) == Max(dx, dy)

\* sizeDelta of the branches nw, ne, sw, se of handleMouseMove
SizeDelta(handle, dx, dy) ==
  CASE handle = "nw" -> Max(-dx, -dy)
    [] handle = "ne" -> Max(dx, -dy)
    [] handle = "sw" -> Max(-dx, dy)
    [] handle = "se" -> Max(dx, dy)

\* handleMouseMove, dragState.handle === 'move'
MovedSticker(initialSticker, imageData, dx, dy) ==
  [initialSticker EXCEPT
     !.x = Max(0, Min(initialSticker.x + dx, imageData.width - initialSticker.width)),
     !.y = Max(0, Min(initialSticker.y + dy, imageData.height - initialSticker.height))]

\* handleMouseMove, corner handles: aspectRatio is initial width / initial
\* height, so newWidth / aspectRatio is newWidth * height / width
ResizedSticker(initialSticker, handle, dx, dy) ==
  LET sizeDelta == SizeDelta(handle, dx, dy)
      newWidth == Max(MinStickerWidth, initialSticker.width + sizeDelta)
      newHeight == (newWidth * initialSticker.height) \div initialSticker.width
  IN [initialSticker EXCEPT
        !.x = IF handle \in {"nw", "sw"}
              THEN initialSticker.x + initialSticker.width - newWidth ELSE @,
        !.y = IF handle \in {"nw", "ne"}
              THEN initialSticker.y + initialSticker.height - newHeight ELSE @,
        !.width = Max(MinStickerWidth, newWidth),
        !.height = Max((MinStickerWidth * initialSticker.height) \div initialSticker.width,
                       newHeight)]

\* the dialog after one sticker was added
InitStickerDrag ==
  /\ state = Opened(StickerImage)
  /\ \E displayWidth \in StickerDisplayWidths, file \in StickerFiles :
        LET u == StickerDialogOpened(StickerImage, displayWidth)
        IN ui = Rendered([u EXCEPT !.stickers = <<NewSticker(u, file)>>, !.nextId = 2])
  /\ pending = <<>>
  /\ lastOp = Op("init", "ok")

\* handleMouseDown(e, stickerId, handle)
StickerMouseDown(stickerId, handle) ==
  /\ ui.dialog = "sticker"
  /\ ~ui.dragState.isDragging
  /\ \E k \in 1..Len(ui.stickers) :
        /\ ui.stickers[k].id = stickerId
        /\ ui' = [ui EXCEPT !.dragState = [isDragging |-> TRUE,
                                           handle |-> handle,
                                           startX |-> StickerMouseDownAt.x,
                                           startY |-> StickerMouseDownAt.y,
                                           initialSticker |-> ui.stickers[k]],
                            !.lastMove = NoMove]
  /\ UNCHANGED <<state, pending, lastOp>>

\* handleMouseMove(e) of the sticker dialog and the render that follows;
\* resizes are followed up to MaxStickerWidth and while the sticker lies
\* inside the image (the code bounds neither)
StickerMouseMove(e) ==
  /\ ui.dialog = "sticker"
  /\ ui.dragState.isDragging
  /\ ui.dragState.initialSticker # NoSticker
  /\ LET initialSticker == ui.dragState.initialSticker
         dx == ((e.x - ui.dragState.startX) * ui.imageData.width) \div ui.displayWidth
         dy == ((e.y - ui.dragState.startY) * ui.imageData.width) \div ui.displayWidth
         updatedSticker ==
           IF ui.dragState.handle = "move"
           THEN MovedSticker(initialSticker, ui.imageData, dx, dy)
           ELSE ResizedSticker(initialSticker, ui.dragState.handle, dx, dy)
     IN /\ updatedSticker.width <= MaxStickerWidth
        /\ updatedSticker.x >= 0
        /\ updatedSticker.y >= 0
        /\ updatedSticker.x + updatedSticker.width <= ui.imageData.width
        /\ updatedSticker.y + updatedSticker.height <= ui.imageData.height
        /\ ui' = Rendered([ui EXCEPT
                   !.stickers = [k \in 1..Len(ui.stickers) |->
                                   IF ui.stickers[k].id = initialSticker.id
                                   THEN updatedSticker ELSE ui.stickers[k]],
                   !.lastMove = [dx |-> dx, dy |-> dy, moved |-> TRUE]])
  /\ UNCHANGED <<state, pending, lastOp>>

\* handleMouseUp of the sticker dialog
StickerMouseUp ==
  /\ ui.dialog = "sticker"
  /\ ui.dragState.isDragging
  /\ ui' = [ui EXCEPT !.dragState = NoDrag, !.lastMove = NoMove]
  /\ UNCHANGED <<state, pending, lastOp>>

NextStickerDrag ==
  \/ \E stickerId \in 1..MaxStickerAdds, handle \in StickerHandles :
        StickerMouseDown(stickerId, handle)
  \/ \E e \in StickerMousePoints : StickerMouseMove(e)
  \/ StickerMouseUp

SpecStickerDrag == InitStickerDrag /\ [][NextStickerDrag]_vars

\* ------------------------------------------------------------------------
\* A session of the sticker dialog over the viewer: the dialog's handlers,
\* handleStickerCancel, and handleStickerConfirm with its awaits
\* ------------------------------------------------------------------------
\* the number of stickers added during a session
MaxSessionAdds == 2

\* the number of stickers in the list at a time during a session
MaxSessionStickers == 1

\* the files picked during a session
SessionFiles == {file \in StickerFiles : file.imageData = "A"}

\* the pointer positions of mouse move events during a session
SessionMousePoints == {[x |-> 0, y |-> 0]}

\* onClick of the rotate handle: a quarter turn, and the render that follows
StickerRotate(stickerId) ==
  /\ ui.dialog = "sticker"
  /\ \E k \in 1..Len(ui.stickers) :
        /\ ui.stickers[k].id = stickerId
        /\ ui' = Rendered([ui EXCEPT !.stickers[k].rotation =
                                        (ui.stickers[k].rotation + 90) % 360])
  /\ UNCHANGED <<state, pending, lastOp>>

\* faulty variant: cancelling keeps the image as a new history entry
StickerCancelCommits ==
  /\ ui.dialog = "sticker"
  /\ Len(pending) = 0
  /\ ui' = [ui EXCEPT !.dialog = "closed"]
  /\ state' = addToHistory(state, state.currentImage)
  /\ UNCHANGED <<pending, lastOp>>

\* handleStickerCancel: setShowStickerDialog(false); the cancel and close
\* buttons are disabled while isProcessing.  The record keeps what the
\* dialog held when it was closed.
StickerCancel ==
  /\ ui.dialog = "sticker"
  /\ Len(pending) = 0
  /\ ui' = [ui EXCEPT !.dialog = "closed"]
  /\ UNCHANGED <<state, pending, lastOp>>

\* handleConfirm(true) or handleConfirmOverwrite: executeSticker calls
\* onConfirm, and handleStickerConfirm runs up to the invoke of applyStickers
StickerConfirmStart(saveAsCopy) ==
  /\ ui.dialog = "sticker"
  /\ Len(ui.stickers) > 0
  /\ Len(pending) = 0
  /\ ui.showConfirm = ~saveAsCopy
  /\ ui' = ExecuteSticker(ui)
  /\ state' = clearError(setLoading(state, TRUE))
  /\ pending' = Append(pending, Handler("edit", "applyStickers", "",
                                        TransformCall(state.currentImage), saveAsCopy))
  /\ lastOp' = Op("start", "ok")

\* the rest of handleStickerConfirm; after a successful save it closes the
\* dialog.  The arguments and locals of the call end with it.
StickerConfirmDone(answer) ==
  /\ ui.dialog = "sticker"
  /\ EditCompletes(1, answer)
  /\ ui' = [ui EXCEPT !.dialog = IF lastOp'.outcome \in {"ok", "copied"} THEN "closed" ELSE @,
                      !.submitted = <<>>,
                      !.stickerParams = <<>>]

NextStickerSession ==
  \/ \E file \in (IF ui.nextId <= MaxSessionAdds /\ Len(ui.stickers) < MaxSessionStickers
                    THEN SessionFiles ELSE {}) :
        StickerAdd(file)
  \/ \E stickerId \in 1..MaxSessionAdds : StickerDelete(stickerId)
  \/ \E stickerId \in 1..MaxSessionAdds, handle \in StickerHandles :
        StickerMouseDown(stickerId, handle)
  \/ \E e \in SessionMousePoints : StickerMouseMove(e)
  \/ StickerMouseUp
  \/ \E stickerId \in 1..MaxSessionAdds : StickerRotate(stickerId)
  \/ StickerConfirm(FALSE)
  \/ StickerCancelOverwrite
  \/ StickerCancel
  \/ \E saveAsCopy \in BOOLEAN : StickerConfirmStart(saveAsCopy)
  \/ \E answer \in EditAnswers : StickerConfirmDone(answer)

SpecStickerSession == InitSticker /\ [][NextStickerSession]_vars

\* ------------------------------------------------------------------------
\* BackgroundSetterDialog over the viewer
\* ------------------------------------------------------------------------
\* useState initial values of the dialog
BackgroundDialogOpened == [dialog |-> "background", error |-> NoError, isProcessing |-> FALSE]

\* the hasAlpha prop: state.currentImage.hasAlpha at the latest render
HasAlphaProp == state.currentImage # Null /\ state.currentImage.hasAlpha

\* handleSetBackground, from the toolbar button
\* (disabled = !state.currentImage || state.isLoading || !hasAlpha)
BackgroundOpen ==
  /\ ui = NoUi
  /\ state.currentImage # Null
  /\ ~state.isLoading
  /\ HasAlphaProp
  /\ ui' = BackgroundDialogOpened
  /\ lastOp' = Op("setBackgroundDialog", "opened")
  /\ UNCHANGED <<state, pending>>

\* handleSetBackgroundCancel, from the overlay, the cancel button or Escape;
\* the dialog is also unmounted when there is no current image
BackgroundCancel ==
  /\ ui.dialog = "background"
  /\ ui' = NoUi
  /\ lastOp' = Op("setBackgroundDialog", "cancelled")
  /\ UNCHANGED <<state, pending>>

\* the dialog's handleConfirm(saveAsCopy), from the confirm buttons
\* (disabled = isProcessing || !hasAlpha) or Enter in the colour inputs
\* (rendered when hasAlpha), calling handleSetBackgroundConfirm up to the
\* invoke of set_background
BackgroundConfirm(saveAsCopy) ==
  /\ ui.dialog = "background"
  /\ ~ui.isProcessing
  /\ HasAlphaProp
  /\ IF ~HasAlphaProp
     THEN /\ ui' = [ui EXCEPT !.error = "no transparency"]
          /\ lastOp' = Op("setBackgroundDialog", "rejected")
          /\ UNCHANGED <<state, pending>>
     ELSE /\ ui' = [ui EXCEPT !.isProcessing = TRUE, !.error = NoError]
          /\ state' = clearError(setLoading(state, TRUE))
          /\ pending' = Append(pending, Handler("edit", "setBackground", "",
                                                TransformCall(state.currentImage), saveAsCopy))
          /\ lastOp' = Op("start", "ok")

\* the rest of handleSetBackgroundConfirm: it closes the dialog after a
\* save and after a cancelled save dialog; it catches its own errors, so
\* the dialog's catch block is not reached and isProcessing stays set
BackgroundDone(i, answer) ==
  /\ i \in 1..Len(pending)
  /\ pending[i].op = "setBackground"
  /\ EditCompletes(i, answer)
  /\ ui' = IF lastOp'.outcome \in {"ok", "copied", "cancelled"} THEN NoUi ELSE ui

NextBackground ==
  \/ \E p \in Startable(MaxInFlight, Paths) : LoadStart(p)
  \/ \E i \in 1..MaxInFlight, ok \in BOOLEAN : LoadDone(i, ok)
  \/ \E d \in Startable(MaxInFlight, {"prev", "next"}) : NavStart(d)
  \/ \E i \in 1..MaxInFlight, ok \in BOOLEAN : NavDone(i, ok)
  \/ BackgroundOpen
  \/ BackgroundCancel
  \/ \E saveAsCopy \in Startable(MaxInFlight, BOOLEAN) : BackgroundConfirm(saveAsCopy)
  \/ \E i \in 1..MaxInFlight, answer \in EditAnswers : BackgroundDone(i, answer)

SpecBackground == Init /\ [][NextBackground]_vars

\* ------------------------------------------------------------------------
\* FormatConverterDialog: the dialog with the format grid, whose onConfirm
\* takes (targetFormat, saveAsCopy, options) as handleConvertConfirm does,
\* and the dialog of components/FormatConverterDialog.tsx with the select
\* box, whose onConfirm takes (targetFormat, options)
\* ------------------------------------------------------------------------
\* type ImageFormat
ImageFormats == {"PNG", "JPEG", "GIF", "BMP", "WEBP", "SVG", "TIFF", "ICO", "HEIC", "AVIF"}

\* the formats of the images the dialog is opened on
CurrentFormats == {"PNG", "JPEG", "SVG", "HEIC"}

\* faulty variant: every format of the type is offered
AllFormatsAvailable == ImageFormats

AVAILABLE_FORMATS == {"PNG", "JPEG", "GIF", "BMP", "WEBP", "TIFF", "ICO", "AVIF"}

SUPPORTED_FORMATS == {"PNG", "JPEG", "GIF", "BMP", "WEBP", "TIFF", "ICO", "AVIF"}

QUALITY_SUPPORTED_FORMATS == {"JPEG", "WEBP", "AVIF"}

\* the formats the select boxes and grid buttons are operated with
PickedFormats == {"PNG", "JPEG", "GIF", "AVIF"}

\* what is typed into the quality input, as the characters of
\* e.target.value: "", "0", "1", "100", "101", "-5", "1e3", "50.7"
QualityInputs ==
  {<<>>, <<"0">>, <<"1">>, <<"1", "0", "0">>, <<"1", "0", "1">>, <<"-", "5">>,
   <<"1", "e", "3">>, <<"5", "0", ".", "7">>}

DigitChars == <<"0", "1", "2", "3", "4", "5", "6", "7", "8", "9">>

IsDigit(c) == \E k \in 1..10 : DigitChars[k] = c

DigitOf(c) == (CHOOSE k \in 1..10 : DigitChars[k] = c) - 1

RECURSIVE DigitsValue(_, _)
\* the number written by the first n characters, all of them digits
DigitsValue(text, n) ==
  IF n = 0 THEN 0 ELSE 10 * DigitsValue(text, n - 1) + DigitOf(text[n])

NaN == [nan |-> TRUE, value |-> 0]

\* parseInt(text, 10): an optional sign, then the longest run of digits;
\* what follows the digits is ignored; NaN when there is no digit
ParseInt(text) ==
  LET signed == Len(text) > 0 /\ text[1] \in {"-", "+"}
      body == IF signed THEN Tail(text) ELSE text
      n == Cardinality({k \in 1..Len(body) : \A j \in 1..k : IsDigit(body[j])})
  IN IF n = 0 THEN NaN
     ELSE [nan |-> FALSE,
           value |-> IF signed /\ text[1] = "-"
                     THEN -DigitsValue(body, n) ELSE DigitsValue(body, n)]

\* onConfirm was not called
NoRequest == [targetFormat |-> "none", saveAsCopy |-> FALSE, hasQuality |-> FALSE, quality |-> 0]

\* useState initial values of the two dialogs; variant "grid" is the dialog
\* with the format grid, "select" the one with the select box
ConverterDialogOpened(variant, currentFormat) ==
  [dialog |-> "convert",
   variant |-> variant,
   currentFormat |-> currentFormat,
   selectedFormat |-> IF variant = "grid"
                      THEN (IF currentFormat \in AVAILABLE_FORMATS THEN currentFormat ELSE "PNG")
                      ELSE (IF currentFormat = "PNG" THEN "JPEG" ELSE "PNG"),
   quality |-> 90,
   qualityText |-> <<"9", "0">>,
   error |-> NoError,
   isProcessing |-> FALSE,
   showConfirm |-> FALSE,
   pendingSaveAsCopy |-> FALSE,
   request |-> NoRequest]

supportsQuality(u) == u.selectedFormat \in QUALITY_SUPPORTED_FORMATS

\* validateInputs() of the grid dialog
validateInputs(u) ==
  /\ u.selectedFormat # "none"
  /\ supportsQuality(u) => ~(u.quality < 1 \/ u.quality > 100)

\* faulty variant: every text is accepted
validateQualityAcceptsAll(value) == TRUE

\* validateQuality(value) of the select dialog
validateQuality(value) ==
  /\ value # <<>>
  /\ LET num == ParseInt(value)
     IN ~num.nan /\ num.value >= 1 /\ num.value <= 100

\* executeConvert(saveAsCopy) of the grid dialog up to the call of onConfirm
executeConvert(u, saveAsCopy) ==
  [u EXCEPT !.isProcessing = TRUE,
            !.error = NoError,
            !.showConfirm = FALSE,
            !.request = [targetFormat |-> u.selectedFormat,
                         saveAsCopy |-> saveAsCopy,
                         hasQuality |-> supportsQuality(u),
                         quality |-> IF supportsQuality(u) THEN u.quality ELSE 0]]

InitConvert ==
  /\ \E variant \in {"grid", "select"}, currentFormat \in CurrentFormats :
        /\ state = Opened([StickerImage EXCEPT !.format = currentFormat])
        /\ ui = ConverterDialogOpened(variant, currentFormat)
  /\ pending = <<>>
  /\ lastOp = Op("init", "ok")

\* handleFormatChange(format), from the buttons of the format grid
handleFormatChange(format) ==
  /\ ui.dialog = "convert"
  /\ ui.variant = "grid"
  /\ ~ui.isProcessing
  /\ format \in AVAILABLE_FORMATS
  /\ ui' = [ui EXCEPT !.selectedFormat = format, !.error = NoError]
  /\ UNCHANGED <<state, pending, lastOp>>

\* handleQualityChange(value), from the quality inputs (rendered when
\* supportsQuality)
handleQualityChange(value) ==
  /\ ui.dialog = "convert"
  /\ ui.variant = "grid"
  /\ ~ui.isProcessing
  /\ supportsQuality(ui)
  /\ LET numValue == ParseInt(value)
     IN ui' = [ui EXCEPT !.quality = IF numValue.nan THEN @
                                      ELSE Max(1, Min(100, numValue.value)),
                         !.error = NoError]
  /\ UNCHANGED <<state, pending, lastOp>>

\* handleConfirm(saveAsCopy) of the grid dialog
ConverterConfirm(saveAsCopy) ==
  /\ ui.dialog = "convert"
  /\ ui.variant = "grid"
  /\ ~ui.isProcessing
  /\ ui' = IF ~validateInputs(ui)
           THEN [ui EXCEPT !.error = "Quality must be between 1 and 100"]
           ELSE IF ~saveAsCopy
           THEN [ui EXCEPT !.pendingSaveAsCopy = saveAsCopy, !.showConfirm = TRUE]
           ELSE executeConvert(ui, saveAsCopy)
  /\ UNCHANGED <<state, pending, lastOp>>

\* handleConfirmOverwrite
ConverterConfirmOverwrite ==
  /\ ui.dialog = "convert"
  /\ ui.showConfirm
  /\ ui' = executeConvert(ui, ui.pendingSaveAsCopy)
  /\ UNCHANGED <<state, pending, lastOp>>

\* handleCancelOverwrite
ConverterCancelOverwrite ==
  /\ ui.dialog = "convert"
  /\ ui.showConfirm
  /\ ui' = [ui EXCEPT !.showConfirm = FALSE]
  /\ UNCHANGED <<state, pending, lastOp>>

\* onChange of the select box: setTargetFormat(e.target.value); the options
\* are SUPPORTED_FORMATS
SelectTargetFormat(format) ==
  /\ ui.dialog = "convert"
  /\ ui.variant = "select"
  /\ ~ui.isProcessing
  /\ format \in SUPPORTED_FORMATS
  /\ ui' = [ui EXCEPT !.selectedFormat = format, !.error = NoError]
  /\ UNCHANGED <<state, pending, lastOp>>

\* onChange of the quality input of the select dialog: setQuality(e.target.value)
TypeQuality(value) ==
  /\ ui.dialog = "convert"
  /\ ui.variant = "select"
  /\ ~ui.isProcessing
  /\ supportsQuality(ui)
  /\ ui' = [ui EXCEPT !.qualityText = value, !.error = NoError]
  /\ UNCHANGED <<state, pending, lastOp>>

\* handleConfirm() of the select dialog up to the call of onConfirm
SelectConfirm ==
  /\ ui.dialog = "convert"
  /\ ui.variant = "select"
  /\ ~ui.isProcessing
  /\ ui' = IF supportsQuality(ui) /\ ~validateQuality(ui.qualityText)
           THEN [ui EXCEPT !.error = "Quality must be between 1 and 100"]
           ELSE [ui EXCEPT !.isProcessing = TRUE,
                           !.error = NoError,
                           !.request = [targetFormat |-> ui.selectedFormat,
                                        saveAsCopy |-> FALSE,
                                        hasQuality |-> supportsQuality(ui),
                                        quality |-> IF supportsQuality(ui)
                                                    THEN ParseInt(ui.qualityText).value
                                                    ELSE 0]]
  /\ UNCHANGED <<state, pending, lastOp>>

NextConvert ==
  \/ \E format \in PickedFormats : handleFormatChange(format)
  \/ \E value \in QualityInputs : handleQualityChange(value)
  \/ \E saveAsCopy \in BOOLEAN : ConverterConfirm(saveAsCopy)
  \/ ConverterConfirmOverwrite
  \/ ConverterCancelOverwrite
  \/ \E format \in PickedFormats : SelectTargetFormat(format)
  \/ \E value \in QualityInputs : TypeQuality(value)
  \/ SelectConfirm

SpecConvert == InitConvert /\ [][NextConvert]_vars

\* ------------------------------------------------------------------------
\* ResizeDialog over the viewer
\* ------------------------------------------------------------------------
\* the images the dialog is opened on: currentWidth x currentHeight
ResizeImages ==
  {[StickerImage EXCEPT !.width = 10, !.height = 10],
   [StickerImage EXCEPT !.width = 100, !.height = 1],
   [StickerImage EXCEPT !.width = 4, !.height = 2]}

\* what is typed into the width and height inputs: "", 0, 1, 5, -5, 0.5
DimensionInputs ==
  {<<>>, <<"0">>, <<"1">>, <<"5">>, <<"-", "5">>, <<"0", ".", "5">>}

\* what is typed into the percentage input: "", 0, -5, 0.1, 1, 50, 200
PercentageInputs ==
  {<<>>, <<"0">>, <<"-", "5">>, <<"0", ".", "1">>, <<"1">>, <<"5", "0">>,
   <<"2", "0", "0">>}

RECURSIVE Pow10(_)
Pow10(m) == IF m = 0 THEN 1 ELSE 10 * Pow10(m - 1)

\* the number of leading digits of a text
LeadingDigits(text) ==
  Cardinality({k \in 1..Len(text) : \A j \in 1..k : IsDigit(text[j])})

\* parseFloat(text) of a text in decimal notation: an optional sign, digits,
\* an optional point and more digits; the value is num / den; NaN when there
\* is no digit
ParseFloat(text) ==
  LET signed == Len(text) > 0 /\ text[1] \in {"-", "+"}
      body == IF signed THEN Tail(text) ELSE text
      n == LeadingDigits(body)
      rest == SubSeq(body, n + 1, Len(body))
      frac == IF Len(rest) > 0 /\ rest[1] = "." THEN Tail(rest) ELSE <<>>
      m == LeadingDigits(frac)
      num == DigitsValue(body, n) * Pow10(m) + DigitsValue(frac, m)
  IN IF n = 0 /\ m = 0 THEN [nan |-> TRUE, num |-> 0, den |-> 1]
     ELSE [nan |-> FALSE,
           num |-> IF signed /\ text[1] = "-" THEN -num ELSE num,
           den |-> Pow10(m)]

RECURSIVE toString(_)
\* n.toString() of a natural number
toString(n) ==
  IF n < 10 THEN <<DigitChars[n + 1]>>
  ELSE toString(n \div 10) \o <<DigitChars[(n % 10) + 1]>>

\* onConfirm was not called
NoResize ==
  [mode |-> "none", width |-> NaN, height |-> NaN,
   keepAspectRatio |-> FALSE, saveAsCopy |-> FALSE]

\* useState initial values of ResizeDialog; request and answer record the
\* call of onConfirm and how it ended
ResizeDialogOpened(currentWidth, currentHeight) ==
  [dialog |-> "resize",
   currentWidth |-> currentWidth,
   currentHeight |-> currentHeight,
   mode |-> "pixels",
   width |-> toString(currentWidth),
   height |-> toString(currentHeight),
   percentage |-> <<"1", "0", "0">>,
   keepAspectRatio |-> TRUE,
   error |-> NoError,
   isProcessing |-> FALSE,
   request |-> NoResize,
   answer |-> "none"]

\* the effect on [width, keepAspectRatio, aspectRatio, mode]: in pixel mode
\* with the ratio locked the height follows the width
HeightFollowsWidth(u) ==
  LET widthNum == ParseInt(u.width)
  IN IF u.mode = "pixels" /\ u.keepAspectRatio /\ Len(u.width) > 0
        /\ ~widthNum.nan /\ widthNum.value > 0
     THEN [u EXCEPT !.height = toString(Round(widthNum.value * u.currentHeight,
                                              u.currentWidth))]
     ELSE u

\* the effect on [percentage, mode, currentWidth, currentHeight]: in
\* percentage mode the dimensions follow the percentage
DimensionsFollowPercentage(u) ==
  LET percentNum == ParseFloat(u.percentage)
  IN IF u.mode = "percentage" /\ Len(u.percentage) > 0
        /\ ~percentNum.nan /\ percentNum.num > 0
     THEN [u EXCEPT !.width = toString(Round(u.currentWidth * percentNum.num,
                                             100 * percentNum.den)),
                    !.height = toString(Round(u.currentHeight * percentNum.num,
                                              100 * percentNum.den))]
     ELSE u

\* the two effects, run after a render that changed their dependencies
ResizeEffects(u) == DimensionsFollowPercentage(HeightFollowsWidth(u))

\* faulty variant: any text passes
validateInputAcceptsAll(value) == TRUE

\* validateInput(value): a positive integer
validateInput(value) ==
  /\ Len(value) > 0
  /\ ~ParseInt(value).nan
  /\ ParseInt(value).value > 0

\* resize_image fails with InvalidDimension if either target is <= 0
InvalidDimension(request) ==
  \/ request.width.nan
  \/ request.height.nan
  \/ request.width.value <= 0
  \/ request.height.value <= 0

InitResize ==
  /\ \E image \in ResizeImages :
        /\ state = Opened(image)
        /\ ui = ResizeEffects(ResizeDialogOpened(image.width, image.height))
  /\ pending = <<>>
  /\ lastOp = Op("init", "ok")

\* handleModeChange(newMode)
handleModeChange(newMode) ==
  /\ ui.dialog = "resize"
  /\ ~ui.isProcessing
  /\ LET widthNum == ParseInt(ui.width)
         moded == [ui EXCEPT !.mode = newMode, !.error = NoError]
         percented ==
           IF newMode = "percentage" /\ ~widthNum.nan /\ widthNum.value > 0
           THEN [moded EXCEPT !.percentage =
                   toString(Round(widthNum.value * 100, ui.currentWidth))]
           ELSE moded
     IN ui' = ResizeEffects(percented)
  /\ lastOp' = Op("handleModeChange", "ok")
  /\ UNCHANGED <<state, pending>>

\* handleWidthChange(value)
handleWidthChange(value) ==
  /\ ui.dialog = "resize"
  /\ ui.mode = "pixels"
  /\ ~ui.isProcessing
  /\ ui' = ResizeEffects([ui EXCEPT !.width = value, !.error = NoError])
  /\ lastOp' = Op("handleWidthChange", "ok")
  /\ UNCHANGED <<state, pending>>

\* handleHeightChange(value): unlocks the ratio
handleHeightChange(value) ==
  /\ ui.dialog = "resize"
  /\ ui.mode = "pixels"
  /\ ~ui.isProcessing
  /\ ui' = ResizeEffects([ui EXCEPT !.keepAspectRatio = FALSE,
                                    !.height = value,
                                    !.error = NoError])
  /\ lastOp' = Op("handleHeightChange", "ok")
  /\ UNCHANGED <<state, pending>>

\* handlePercentageChange(value)
handlePercentageChange(value) ==
  /\ ui.dialog = "resize"
  /\ ui.mode = "percentage"
  /\ ~ui.isProcessing
  /\ ui' = ResizeEffects([ui EXCEPT !.percentage = value, !.error = NoError])
  /\ lastOp' = Op("handlePercentageChange", "ok")
  /\ UNCHANGED <<state, pending>>

\* the checkbox: setKeepAspectRatio(e.target.checked)
setKeepAspectRatio(checked) ==
  /\ ui.dialog = "resize"
  /\ ui.mode = "pixels"
  /\ ~ui.isProcessing
  /\ ui.keepAspectRatio # checked
  /\ ui' = ResizeEffects([ui EXCEPT !.keepAspectRatio = checked])
  /\ lastOp' = Op("setKeepAspectRatio", "ok")
  /\ UNCHANGED <<state, pending>>

\* handleConfirm(saveAsCopy) of the dialog, and handleResizeConfirm up to
\* its await of resizeImage
ResizeConfirm(saveAsCopy) ==
  /\ ui.dialog = "resize"
  /\ ~ui.isProcessing
  /\ Len(pending) = 0
  /\ LET percentNum == ParseFloat(ui.percentage)
         refused ==
           IF ui.mode = "percentage"
           THEN IF percentNum.nan \/ percentNum.num <= 0
                THEN "percentage must be positive" ELSE NoError
           ELSE IF ~validateInput(ui.width) THEN "width must be a positive integer"
                ELSE IF ~validateInput(ui.height)
                     THEN "height must be a positive integer" ELSE NoError
     IN IF refused # NoError
        THEN /\ ui' = [ui EXCEPT !.error = refused]
             /\ lastOp' = Op("handleConfirm", "refused")
             /\ UNCHANGED <<state, pending>>
        ELSE /\ ui' = [ui EXCEPT !.isProcessing = TRUE,
                                 !.error = NoError,
                                 !.request = [mode |-> ui.mode,
                                              width |-> ParseInt(ui.width),
                                              height |-> ParseInt(ui.height),
                                              keepAspectRatio |-> ui.keepAspectRatio,
                                              saveAsCopy |-> saveAsCopy]]
             /\ state' = clearError(setLoading(state, TRUE))
             /\ pending' = Append(pending, Handler("edit", "resize", "",
                                                   TransformCall(state.currentImage),
                                                   saveAsCopy))
             /\ lastOp' = Op("start", "ok")

\* the rest of handleResizeConfirm: the backend refuses a non-positive
\* target; after a save, or when the save dialog is cancelled, the resize
\* dialog is closed; after a failure it stays open
ResizeDone(answer) ==
  /\ ui.dialog = "resize"
  /\ InvalidDimension(ui.request) => answer = "invokeFailed"
  /\ EditCompletes(1, answer)
  /\ ui' = [ui EXCEPT
              !.dialog = IF lastOp'.outcome \in {"ok", "copied", "cancelled"}
                         THEN "closed" ELSE @,
              !.answer = IF InvalidDimension(ui.request) THEN "InvalidDimension"
                         ELSE IF lastOp'.outcome \in {"ok", "copied"} THEN "performed"
                         ELSE lastOp'.outcome]

\* handleResizeCancel, from the cancel button or a click on the overlay
ResizeCancel ==
  /\ ui.dialog = "resize"
  /\ Len(pending) = 0
  /\ ui' = [ui EXCEPT !.dialog = "closed"]
  /\ lastOp' = Op("handleResizeCancel", "ok")
  /\ UNCHANGED <<state, pending>>

NextResize ==
  \/ \E newMode \in {"pixels", "percentage"} : handleModeChange(newMode)
  \/ \E value \in DimensionInputs : handleWidthChange(value)
  \/ \E value \in DimensionInputs : handleHeightChange(value)
  \/ \E value \in PercentageInputs : handlePercentageChange(value)
  \/ \E checked \in BOOLEAN : setKeepAspectRatio(checked)
  \/ \E saveAsCopy \in BOOLEAN : ResizeConfirm(saveAsCopy)
  \/ \E answer \in EditAnswers : ResizeDone(answer)
  \/ ResizeCancel

SpecResize == InitResize /\ [][NextResize]_vars

\* ------------------------------------------------------------------------
\* The rotate buttons of the toolbar, pressed one after the other
\* ------------------------------------------------------------------------
\* most rotations that are saved in one run
MaxTurns == 4

\* the images that are rotated
RotateImages ==
  {[StickerImage EXCEPT !.width = 4, !.height = 2],
   [StickerImage EXCEPT !.width = 2, !.height = 2, !.data = 1, !.hasAlpha = FALSE],
   [StickerImage EXCEPT !.width = 1, !.height = 3, !.data = 6, !.format = "JPEG"]}

\* the record of a run of rotations: the image it started from and the
\* rotations that were saved, in order
Rotations(image, turns) == [dialog |-> "none", original |-> image, turns |-> turns]

\* faulty variant: both handlers rotate clockwise
AlwaysClockwise(op) == TRUE

\* the clockwise argument of rotateImage: false in handleRotateLeft, true
\* in handleRotateRight
Clockwise(op) == op = "rotateRight"

\* what rotate_image answers
rotateImage(imageData, clockwise) ==
  BackendResult(IF clockwise THEN "rotateRight" ELSE "rotateLeft", imageData)

\* how the awaits of a rotate handler can be answered
RotateAnswers == {"invokeFailed", "saveFailed", "saved"}

InitRotate ==
  /\ \E image \in RotateImages :
        /\ state = Opened(image)
        /\ ui = Rotations(image, <<>>)
  /\ pending = <<>>
  /\ lastOp = Op("init", "ok")

\* handleRotateLeft / handleRotateRight up to the invoke; the buttons are
\* disabled while isLoading
RotateStart(op) ==
  /\ IsRotate(op)
  /\ Len(ui.turns) < MaxTurns
  /\ Len(pending) = 0
  /\ EditStart(op, FALSE)

\* the rest of the handler: rotateImage answers or throws, saveImage to
\* state.currentImage.path, setCurrentImage(rotatedImage),
\* addToHistory(rotatedImage), catch, finally
RotateDone(answer) ==
  /\ Len(pending) = 1
  /\ IsRotate(pending[1].op)
  /\ LET rotatedImage == rotateImage(pending[1].call.input, Clockwise(pending[1].op))
     IN CASE answer = "invokeFailed" -> Failed(state, 1, "edit", "operation failed")
          [] answer # "invokeFailed" /\ ImmutabilityViolated(pending[1].call) ->
               /\ state' = setLoading(setError(state, "Immutability violation"), FALSE)
               /\ pending' = Remove(pending, 1)
               /\ lastOp' = Op("edit", "violation")
          [] answer = "saveFailed" /\ ~ImmutabilityViolated(pending[1].call) ->
               Failed(state, 1, "edit", "operation failed")
          [] answer = "saved" /\ ~ImmutabilityViolated(pending[1].call) ->
               /\ state' = setLoading(addToHistory(setCurrentImage(state, rotatedImage),
                                                   rotatedImage), FALSE)
               /\ pending' = Remove(pending, 1)
               /\ lastOp' = Op("edit", "ok")
  /\ ui' = IF lastOp'.outcome = "ok"
           THEN [ui EXCEPT !.turns = Append(@, pending[1].op)]
           ELSE ui

NextRotate ==
  \/ \E op \in {"rotateLeft", "rotateRight"} : RotateStart(op)
  \/ \E answer \in RotateAnswers : RotateDone(answer)

SpecRotate == InitRotate /\ [][NextRotate]_vars

\* ------------------------------------------------------------------------
\* useImageZoom in the viewer
\* ------------------------------------------------------------------------
\* useImageZoom({ minZoom: 0.5, maxZoom: 5, zoomStep: 0.2 }); the model
\* counts zoom in tenths
minZoom == 5
maxZoom == 50
zoomStep == 2
\* zoom 1, 100%
FullSize == 10

\* largest distance of a pan from the origin, in pixels, on each axis
MaxPan == 20

\* where the pointer is, relative to the container, in wheel and mouse
\* events
ZoomMousePoints == {[x |-> 0, y |-> 0], [x |-> 20, y |-> 0]}

Origin == [x |-> 0, y |-> 0]

\* dragStartRef.current when no drag is going on
NoDragStart == [x |-> -1, y |-> -1]

\* useState and useRef initial values of useImageZoom
ZoomInitial ==
  [dialog |-> "viewer",
   zoom |-> FullSize,
   position |-> Origin,
   isDragging |-> FALSE,
   dragStart |-> NoDragStart,
   initialPosition |-> Origin]

\* the effect on [zoom]: when the zoom has changed to 1 or below, the
\* position is reset
PositionReset(u, prevZoom) ==
  IF u.zoom # prevZoom /\ u.zoom <= FullSize THEN [u EXCEPT !.position = Origin] ELSE u

\* faulty variant: the new zoom is not limited
ClampZoomUnlimited(z) == z

\* Math.max(minZoom, Math.min(maxZoom, z))
ClampZoom(z) == Max(minZoom, Min(maxZoom, z))

\* mouse - (mouse - prev) * zoomRatio, to the nearest pixel
ZoomedTowards(mouse, prev, newZoom, prevZoom) ==
  mouse - Round((mouse - prev) * newZoom, prevZoom)

WithinPan(position) ==
  /\ position.x >= -MaxPan /\ position.x <= MaxPan
  /\ position.y >= -MaxPan /\ position.y <= MaxPan

\* resetZoom(): setZoom(1); setPosition({ x: 0, y: 0 })
resetZoom(u) == [u EXCEPT !.zoom = FullSize, !.position = Origin]

\* the viewer shows an image: the zoom container and controls are rendered
ZoomShown == ui.dialog = "viewer" /\ state.currentImage # Null

\* handleWheel(e), with -e.deltaY > 0 (zoom in) or not (zoom out)
handleWheel(e, zoomsIn) ==
  /\ ZoomShown
  /\ LET zoomChange == IF zoomsIn THEN zoomStep ELSE -zoomStep
         newZoom == ClampZoom(ui.zoom + zoomChange)
         moved == IF newZoom # ui.zoom
                  THEN [x |-> ZoomedTowards(e.x, ui.position.x, newZoom, ui.zoom),
                        y |-> ZoomedTowards(e.y, ui.position.y, newZoom, ui.zoom)]
                  ELSE ui.position
     IN /\ WithinPan(moved)
        /\ ui' = PositionReset([ui EXCEPT !.zoom = newZoom, !.position = moved], ui.zoom)
  /\ lastOp' = Op("handleWheel", "ok")
  /\ UNCHANGED <<state, pending>>

\* handleMouseDown(e) on the image: only when zoomed in
handleImageMouseDown(e) ==
  /\ ZoomShown
  /\ ~ui.isDragging
  /\ ui.zoom > FullSize
  /\ ui' = [ui EXCEPT !.isDragging = TRUE,
                      !.dragStart = e,
                      !.initialPosition = ui.position]
  /\ lastOp' = Op("handleMouseDown", "ok")
  /\ UNCHANGED <<state, pending>>

\* handleMouseMove(e) of the document listener
handleImageMouseMove(e) ==
  /\ ui.dialog = "viewer"
  /\ ui.isDragging
  /\ ui.dragStart # NoDragStart
  /\ LET moved == [x |-> ui.initialPosition.x + (e.x - ui.dragStart.x),
                   y |-> ui.initialPosition.y + (e.y - ui.dragStart.y)]
     IN /\ WithinPan(moved)
        /\ ui' = [ui EXCEPT !.position = moved]
  /\ lastOp' = Op("handleMouseMove", "ok")
  /\ UNCHANGED <<state, pending>>

\* handleMouseUp of the document listener; initialPositionRef keeps its
\* value, which is not read again before the next mouse down overwrites
\* it, so the model forgets it here
handleImageMouseUp ==
  /\ ui.dialog = "viewer"
  /\ ui.isDragging
  /\ ui' = [ui EXCEPT !.isDragging = FALSE,
                      !.dragStart = NoDragStart,
                      !.initialPosition = Origin]
  /\ lastOp' = Op("handleMouseUp", "ok")
  /\ UNCHANGED <<state, pending>>

\* zoomIn(), from the + button (disabled at zoom >= 5)
zoomIn ==
  /\ ZoomShown
  /\ ui.zoom < maxZoom
  /\ ui' = PositionReset([ui EXCEPT !.zoom = Min(maxZoom, ui.zoom + zoomStep)], ui.zoom)
  /\ lastOp' = Op("zoomIn", "ok")
  /\ UNCHANGED <<state, pending>>

\* zoomOut(), from the - button (disabled at zoom <= 0.5)
zoomOut ==
  /\ ZoomShown
  /\ ui.zoom > minZoom
  /\ LET newZoom == Max(minZoom, ui.zoom - zoomStep)
         moved == IF newZoom <= FullSize THEN Origin ELSE ui.position
     IN ui' = PositionReset([ui EXCEPT !.zoom = newZoom, !.position = moved], ui.zoom)
  /\ lastOp' = Op("zoomOut", "ok")
  /\ UNCHANGED <<state, pending>>

\* resetZoom(), from the reset button (disabled at zoom === 1)
ResetZoom ==
  /\ ZoomShown
  /\ ui.zoom # FullSize
  /\ ui' = resetZoom(ui)
  /\ lastOp' = Op("resetZoom", "ok")
  /\ UNCHANGED <<state, pending>>

\* the rest of loadImageFromPath, with its call of resetZoom() after
\* addToHistory
ZoomLoadDone(i, ok) ==
  /\ ui.dialog = "viewer"
  /\ LoadCompletes(i, ok)
  /\ ui' = IF ok THEN resetZoom(ui) ELSE ui

\* the hook in a viewer that shows an image
InitZoom ==
  /\ state = Opened(FileImage("/d/a.png"))
  /\ pending = <<>>
  /\ lastOp = Op("init", "ok")
  /\ ui = ZoomInitial

\* the wheel, the mouse and the zoom buttons
NextZoom ==
  \/ \E e \in ZoomMousePoints, zoomsIn \in BOOLEAN : handleWheel(e, zoomsIn)
  \/ \E e \in ZoomMousePoints : handleImageMouseDown(e)
  \/ \E e \in ZoomMousePoints : handleImageMouseMove(e)
  \/ handleImageMouseUp
  \/ zoomIn
  \/ zoomOut
  \/ ResetZoom

SpecZoom == InitZoom /\ [][NextZoom]_vars

\* where the pointer is in the mouse events of the viewer that loads images
LoadMousePoints == {[x |-> 20, y |-> 10]}

InitZoomLoad ==
  /\ state = initialState
  /\ pending = <<>>
  /\ lastOp = Op("init", "ok")
  /\ ui = ZoomInitial

\* The viewer with its zoom: opening files (dialog, drag and drop),
\* previous / next, the mouse and the zoom buttons.
NextZoomLoad ==
  \/ \E p \in Startable(MaxPending, Paths) : LoadStart(p)
  \/ \E ok \in BOOLEAN : ZoomLoadDone(1, ok)
  \/ \E d \in Startable(MaxPending, {"prev", "next"}) : NavStart(d)
  \/ \E ok \in BOOLEAN : NavDone(1, ok)
  \/ handleImageMouseDown(Origin)
  \/ \E e \in LoadMousePoints : handleImageMouseMove(e)
  \/ handleImageMouseUp
  \/ zoomIn
  \/ zoomOut
  \/ ResetZoom

SpecZoomLoad == InitZoomLoad /\ [][NextZoomLoad]_vars

\* ------------------------------------------------------------------------
\* The drag and drop effect of ImageViewer
\* ------------------------------------------------------------------------
\* the files that are dropped on the window: an image and a text file
DroppedPaths == {"/d/a.png", "/d/notes.txt"}

\* imageExtensions.some(ext => fileName.endsWith(ext))
isImage(filePath) == filePath \in Paths

\* lastProcessedPath = null
NoPath == ""

\* The module-level variables dragDropListenerRegistered and
\* dragDropUnlistenFn, the mounted component with the cleanup function of
\* its effect, the calls of webview.onDragDropEvent that have not answered
\* (settingUp), the listeners the webview holds, the variables of the
\* listener's closure (lastProcessedPath, isProcessingDrop; withinSecond
\* says that now - lastProcessedTime < 1000), the path of the last drop
\* event, and the success notifications shown for the last drop
DropInitial ==
  [dialog |-> "dragdrop",
   mounted |-> FALSE,
   hasCleanup |-> FALSE,
   dragDropListenerRegistered |-> FALSE,
   dragDropUnlistenFn |-> FALSE,
   settingUp |-> 0,
   listeners |-> 0,
   lastProcessedPath |-> NoPath,
   withinSecond |-> FALSE,
   isProcessingDrop |-> FALSE,
   dropped |-> NoPath,
   successes |-> 0]

\* the cleanup function of the effect: unlisten if the handle is stored
DropCleanup(u) ==
  IF u.dragDropUnlistenFn
  THEN [u EXCEPT !.listeners = Max(0, @ - 1), !.dragDropUnlistenFn = FALSE]
  ELSE u

\* a faulty variant: the effect without the test of the flag
DropEffectUnguarded(u) ==
  [u EXCEPT !.dragDropListenerRegistered = TRUE,
            !.settingUp = @ + 1,
            !.hasCleanup = TRUE]

\* one run of the effect: skipped when the flag is set (no cleanup function
\* is returned), otherwise the flag is set and setupListeners() is called
DropEffect(u) ==
  IF u.dragDropListenerRegistered
  THEN [u EXCEPT !.hasCleanup = FALSE]
  ELSE [u EXCEPT !.dragDropListenerRegistered = TRUE,
                 !.settingUp = @ + 1,
                 !.hasCleanup = TRUE]

\* the cleanup of the last run of the effect, if it returned one
DropUnmounted(u) == IF u.hasCleanup THEN DropCleanup(u) ELSE u

InitDrop ==
  /\ state = initialState
  /\ pending = <<>>
  /\ lastOp = Op("init", "ok")
  /\ ui = DropInitial

\* ImageViewer is mounted; under React.StrictMode the effect is run, cleaned
\* up and run again
Mount(strictMode) ==
  /\ ui.dialog = "dragdrop"
  /\ ~ui.mounted
  /\ ui' = [(IF strictMode THEN DropEffect(DropUnmounted(DropEffect(ui))) ELSE DropEffect(ui))
              EXCEPT !.mounted = TRUE]
  /\ lastOp' = Op("mount", "ok")
  /\ UNCHANGED <<state, pending>>

\* ImageViewer is unmounted
Unmount ==
  /\ ui.dialog = "dragdrop"
  /\ ui.mounted
  /\ ui' = [DropUnmounted(ui) EXCEPT !.mounted = FALSE, !.hasCleanup = FALSE]
  /\ lastOp' = Op("unmount", "ok")
  /\ UNCHANGED <<state, pending>>

\* webview.onDragDropEvent answers inside setupListeners: the handle is
\* stored, or the catch block resets the flag
SetupAnswers(ok) ==
  /\ ui.dialog = "dragdrop"
  /\ ui.settingUp > 0
  /\ ui' = IF ok
           THEN [ui EXCEPT !.settingUp = @ - 1,
                           !.listeners = @ + 1,
                           !.dragDropUnlistenFn = TRUE]
           ELSE [ui EXCEPT !.settingUp = @ - 1,
                           !.dragDropListenerRegistered = FALSE]
  /\ lastOp' = Op("setupListeners", IF ok THEN "ok" ELSE "failed")
  /\ UNCHANGED <<state, pending>>

\* A file is dropped on the window.  Without a listener nothing happens;
\* the listener ignores the event while it processes a drop and when the
\* same path was processed less than a second ago, refuses a file that is
\* not an image, and otherwise calls loadImageFromPath(filePath, false),
\* which runs up to its first await.
Drop(filePath) ==
  /\ ui.dialog = "dragdrop"
  /\ Len(pending) = 0
  /\ IF ui.listeners = 0
     THEN /\ ui' = [ui EXCEPT !.dropped = filePath]
          /\ lastOp' = Op("drop", "lost")
          /\ UNCHANGED <<state, pending>>
     ELSE IF ui.isProcessingDrop \/ (filePath = ui.lastProcessedPath /\ ui.withinSecond)
     THEN /\ ui' = [ui EXCEPT !.dropped = filePath]
          /\ lastOp' = Op("drop", "ignored")
          /\ UNCHANGED <<state, pending>>
     ELSE IF ~isImage(filePath)
     THEN /\ ui' = [ui EXCEPT !.dropped = filePath,
                              !.lastProcessedPath = filePath,
                              !.withinSecond = TRUE,
                              !.isProcessingDrop = FALSE,
                              !.successes = 0]
          /\ lastOp' = Op("drop", "refused")
          /\ UNCHANGED <<state, pending>>
     ELSE /\ ui' = [ui EXCEPT !.dropped = filePath,
                              !.lastProcessedPath = filePath,
                              !.withinSecond = TRUE,
                              !.isProcessingDrop = TRUE,
                              !.successes = 0]
          /\ state' = clearError(setLoading(state, TRUE))
          /\ pending' = Append(pending, Handler("load", "load", filePath, NoCall, FALSE))
          /\ lastOp' = Op("drop", "loading")

\* loadImageFromPath completes; it catches its own errors, so the promise
\* resolves either way and .then shows the success notification
DropLoadDone(ok) ==
  /\ ui.dialog = "dragdrop"
  /\ LoadCompletes(1, ok)
  /\ ui' = [ui EXCEPT !.successes = @ + 1]

\* the timer of .finally: isProcessingDrop = false after 500 ms
DropTimer ==
  /\ ui.dialog = "dragdrop"
  /\ ui.isProcessingDrop
  /\ Len(pending) = 0
  /\ ui' = [ui EXCEPT !.isProcessingDrop = FALSE]
  /\ lastOp' = Op("dropTimer", "ok")
  /\ UNCHANGED <<state, pending>>

\* a second has passed since the last processed drop
SecondPasses ==
  /\ ui.dialog = "dragdrop"
  /\ ui.withinSecond
  /\ ~ui.isProcessingDrop
  /\ ui' = [ui EXCEPT !.withinSecond = FALSE]
  /\ lastOp' = Op("secondPasses", "ok")
  /\ UNCHANGED <<state, pending>>

NextDrop ==
  \/ \E strictMode \in BOOLEAN : Mount(strictMode)
  \/ Unmount
  \/ \E ok \in BOOLEAN : SetupAnswers(ok)
  \/ \E filePath \in DroppedPaths : Drop(filePath)
  \/ \E ok \in BOOLEAN : DropLoadDone(ok)
  \/ DropTimer
  \/ SecondPasses

SpecDrop == InitDrop /\ [][NextDrop]_vars

\* ------------------------------------------------------------------------
\* ImageData objects by reference: the objects a caller holds and the
\* objects the context stores
\* ------------------------------------------------------------------------
\* most ImageData objects that are created in one run
MaxObjects == 4

\* The value of ApplicationState when every reference is followed: u.heap
\* holds the ImageData objects (an address is a position in it),
\* u.currentImage and u.imageHistory are the references the context holds
\* (0 is null).
Dereferenced(u, currentHistoryIndex) ==
  [initialState EXCEPT
     !.currentImage = IF u.currentImage = 0 THEN Null ELSE u.heap[u.currentImage],
     !.imageHistory = [k \in 1..Len(u.imageHistory) |-> u.heap[u.imageHistory[k]]],
     !.currentHistoryIndex = currentHistoryIndex]

\* faulty variant: the reducers store the object they were handed
StoredObjectIsArgument(heap, a) == a

\* the object setCurrentImage and addToHistory store: the new object
\* deepCopyImageData returns
StoredObject(heap, a) == Len(heap) + 1

\* No object exists.  held: the objects the caller has references to;
\* passed: those it has handed to setCurrentImage or addToHistory; copies:
\* the pairs of an object and a copy the caller made of it; mutated: the
\* object last written to.
InitHeap ==
  /\ state = initialState
  /\ pending = <<>>
  /\ lastOp = Op("init", "ok")
  /\ ui = [dialog |-> "heap", heap |-> <<>>, held |-> {}, passed |-> {},
           copies |-> {}, currentImage |-> 0, imageHistory |-> <<>>, mutated |-> 0]

\* the caller receives a new object (loadImage, a transform wrapper)
HeapCreate(image) ==
  /\ ui.dialog = "heap"
  /\ Len(ui.heap) < MaxObjects
  /\ ui' = [ui EXCEPT !.heap = Append(@, image), !.held = @ \cup {Len(ui.heap) + 1}]
  /\ lastOp' = Op("create", "ok")
  /\ UNCHANGED <<state, pending>>

\* the caller calls deepCopyImageData(a) and keeps the result
HeapDeepCopy(a) ==
  /\ ui.dialog = "heap"
  /\ Len(ui.heap) < MaxObjects
  /\ ui' = [ui EXCEPT !.heap = Append(@, deepCopyImageData(ui.heap[a])),
                      !.held = @ \cup {Len(ui.heap) + 1},
                      !.copies = @ \cup {<<a, Len(ui.heap) + 1>>}]
  /\ lastOp' = Op("deepCopyImageData", "ok")
  /\ UNCHANGED <<state, pending>>

\* setCurrentImage(a): currentImage: deepCopyImageData(image)
HeapSetCurrentImage(a) ==
  /\ ui.dialog = "heap"
  /\ Len(ui.heap) < MaxObjects
  /\ ui' = [ui EXCEPT !.heap = Append(@, deepCopyImageData(ui.heap[a])),
                      !.passed = @ \cup {a},
                      !.currentImage = StoredObject(ui.heap, a)]
  /\ state' = Dereferenced(ui', state.currentHistoryIndex)
  /\ lastOp' = Op("setCurrentImage", "ok")
  /\ UNCHANGED pending

\* addToHistory(a): the copy is pushed after slice(0, currentHistoryIndex + 1)
\* and is the current image as well
HeapAddToHistory(a) ==
  /\ ui.dialog = "heap"
  /\ Len(ui.heap) < MaxObjects
  /\ state.currentHistoryIndex + 2 <= MaxHist
  /\ ui' = [ui EXCEPT !.heap = Append(@, deepCopyImageData(ui.heap[a])),
                      !.passed = @ \cup {a},
                      !.currentImage = StoredObject(ui.heap, a),
                      !.imageHistory = Append(SubSeq(@, 1, state.currentHistoryIndex + 1),
                                              StoredObject(ui.heap, a))]
  /\ state' = Dereferenced(ui', Len(ui'.imageHistory) - 1)
  /\ lastOp' = Op("addToHistory", "ok")
  /\ UNCHANGED pending

\* navigateHistory(direction): currentImage: imageHistory[newIndex], the
\* entry itself
HeapNavigateHistory(direction) ==
  /\ ui.dialog = "heap"
  /\ LET newIndex == IF direction = "undo"
                     THEN state.currentHistoryIndex - 1
                     ELSE state.currentHistoryIndex + 1
     IN /\ IF direction = "undo"
           THEN state.currentHistoryIndex > 0
           ELSE state.currentHistoryIndex < Len(ui.imageHistory) - 1
        /\ ui' = [ui EXCEPT !.currentImage = ui.imageHistory[newIndex + 1]]
        /\ state' = Dereferenced(ui', newIndex)
  /\ lastOp' = Op(direction, "ok")
  /\ UNCHANGED pending

\* the caller writes to an object it holds: copy.width = 1000
HeapMutate(a) ==
  /\ ui.dialog = "heap"
  /\ ui.heap[a].width # MutatedWidth
  /\ ui' = [ui EXCEPT !.heap[a].width = MutatedWidth, !.mutated = a]
  /\ state' = Dereferenced(ui', state.currentHistoryIndex)
  /\ lastOp' = Op("mutate", "ok")
  /\ UNCHANGED pending

NextHeap ==
  \/ \E p \in Paths : HeapCreate(FileImage(p))
  \/ \E a \in ui.held : HeapDeepCopy(a)
  \/ \E a \in ui.held : HeapSetCurrentImage(a)
  \/ \E a \in ui.held : HeapAddToHistory(a)
  \/ \E d \in {"undo", "redo"} : HeapNavigateHistory(d)
  \/ \E a \in ui.held : HeapMutate(a)

SpecHeap == InitHeap /\ [][NextHeap]_vars

\* ------------------------------------------------------------------------
\* ErrorLogger (utils/errorLogger.ts)
\* ------------------------------------------------------------------------
\* private maxLogs = 100
maxLogs == 100

\* most calls of errorLogger.log in one run
MaxLogCalls == 105

\* faulty variant: the oldest entry is never removed
logWithoutShift(logs, entry) == Append(logs, entry)

\* log(): this.logs.push(entry); if (this.logs.length > this.maxLogs)
\* this.logs.shift()
log(logs, entry) ==
  LET pushed == Append(logs, entry)
  IN IF Len(pushed) > maxLogs THEN Tail(pushed) ELSE pushed

\* private logs = []; calls: the calls of log so far; cleared: how many of
\* them came before the last clearLogs
InitLogger ==
  /\ state = initialState
  /\ pending = <<>>
  /\ lastOp = Op("init", "ok")
  /\ ui = [dialog |-> "logger", logs |-> <<>>, calls |-> 0, cleared |-> 0]

\* errorLogger.log(...), directly or through logError, logWarning, logInfo
\* and logCritical; an entry is told from the others by its place in the
\* order of arrival
LoggerLog ==
  /\ ui.dialog = "logger"
  /\ ui.calls < MaxLogCalls
  /\ ui' = [ui EXCEPT !.logs = log(@, [arrival |-> ui.calls + 1]), !.calls = @ + 1]
  /\ lastOp' = Op("log", "ok")
  /\ UNCHANGED <<state, pending>>

\* clearLogs(): this.logs = []
clearLogs ==
  /\ ui.dialog = "logger"
  /\ Len(ui.logs) > 0
  /\ ui' = [ui EXCEPT !.logs = <<>>, !.cleared = ui.calls]
  /\ lastOp' = Op("clearLogs", "ok")
  /\ UNCHANGED <<state, pending>>

NextLogger ==
  \/ LoggerLog
  \/ clearLogs

SpecLogger == InitLogger /\ [][NextLogger]_vars

\* ------------------------------------------------------------------------
\* The files the edit handlers write
\* ------------------------------------------------------------------------
\* faulty variant: the file is written before the save dialog is answered
saveImageCallsBeforeDialog(handler, answer) ==
  IF answer = "invokeFailed" THEN {}
  ELSE IF handler.saveAsCopy THEN {CopyPath}
  ELSE {handler.call.given.path}

\* The paths an edit handler calls saveImage with, given how its awaits
\* are answered: none when the transform fails or the save dialog returns
\* null; savePath for a copy; state.currentImage.path, as the handler
\* closed over it, otherwise.
saveImageCalls(handler, answer) ==
  IF answer \in {"invokeFailed", "saveCancelled"} THEN {}
  ELSE IF handler.saveAsCopy THEN {CopyPath}
  ELSE {handler.call.given.path}

\* no handler has run; written: the paths saveImage was called with
InitFiles ==
  /\ state = initialState
  /\ pending = <<>>
  /\ lastOp = Op("init", "ok")
  /\ ui = [dialog |-> "files", written |-> {}, saved |-> {}]

\* an edit handler completes; saved: the paths of its saveImage calls
FilesEditDone(i, answer) ==
  /\ ui.dialog = "files"
  /\ EditCompletes(i, answer)
  /\ LET calls == saveImageCalls(pending[i], answer)
     IN ui' = [ui EXCEPT !.written = @ \cup calls, !.saved = calls]

NextFiles ==
  \/ \E p \in Startable(MaxPending, Paths) : LoadStart(p)
  \/ \E i \in 1..MaxPending, ok \in BOOLEAN : LoadDone(i, ok)
  \/ \E op \in Startable(MaxPending, EditOps), saveAsCopy \in BOOLEAN : EditStart(op, saveAsCopy)
  \/ \E i \in 1..MaxPending, answer \in EditAnswers : FilesEditDone(i, answer)

SpecFiles == InitFiles /\ [][NextFiles]_vars

\* ------------------------------------------------------------------------
\* Properties of the edit history
\* ------------------------------------------------------------------------
\* the handler steps that call addToHistory
CommitOps == {"load", "nav", "edit"}

Committed == lastOp.outcome = "ok" /\ lastOp.name \in CommitOps

\* C1: after any sequence of loads, addToHistory and navigateHistory calls
\* the history is Empty (no entries, currentHistoryIndex = -1) or NonEmpty
\* with 0 <= currentHistoryIndex < imageHistory.length.
HistoryIndexInRange ==
  \/ /\ state.imageHistory = <<>>
     /\ state.currentHistoryIndex = -1
  \/ /\ state.imageHistory # <<>>
     /\ 0 <= state.currentHistoryIndex
     /\ state.currentHistoryIndex < Len(state.imageHistory)

\* a full history with the pointer undone down to its first entry
HistoryIndexInRangeWitness ==
  /\ lastOp = Op("undo", "ok")
  /\ Len(state.imageHistory) = MaxHist
  /\ state.currentHistoryIndex = 0

\* C2: history linearity: immediately after every addToHistory the number of
\* entries equals pointer + 1, so no redo entry survives a new edit.
HistoryLinearity ==
  Committed => Len(state.imageHistory) = state.currentHistoryIndex + 1

\* a resize has just been committed on top of the first entry
HistoryLinearityWitness ==
  /\ lastOp = Op("edit", "ok")
  /\ state.currentHistoryIndex = 1
  /\ state.imageHistory = <<FileImage("/d/a.png"), BackendResult("resize", FileImage("/d/a.png"))>>

\* C3: whenever a different image file is opened the history is reset: no
\* snapshot of the previously opened image remains in imageHistory.
HistoryResetOnOpen ==
  (lastOp.outcome = "ok" /\ lastOp.name \in {"load", "nav"}) =>
     \A k \in 1..Len(state.imageHistory) :
        state.imageHistory[k].path = state.currentImage.path

\* the history entry at the pointer
EntryAtPointer(st) == st.imageHistory[st.currentHistoryIndex + 1]

\* C4 as stated: in every reachable state the current image equals
\* imageHistory[currentHistoryIndex] in all fields when the history is
\* non-empty and is null when the history is Empty, path updates included.
CurrentIsEntryAtPointer ==
  IF state.imageHistory = <<>>
  THEN state.currentImage = Null
  ELSE state.currentImage = EntryAtPointer(state)

\* C4: in every reachable state the current image is null when the history
\* is Empty and otherwise equals imageHistory[currentHistoryIndex] in every
\* field other than path; its path is the entry's path or the path last
\* given to updateCurrentImagePath, which leaves the history entry as it was.
CurrentIsEntryAtPointerUpToPath ==
  IF state.imageHistory = <<>>
  THEN state.currentImage = Null
  ELSE /\ state.currentImage # Null
       /\ [state.currentImage EXCEPT !.path = EntryAtPointer(state).path] = EntryAtPointer(state)
       /\ state.currentImage.path \in {EntryAtPointer(state).path, CopyPath}

\* the path of the current image was updated and the entry kept its own
CurrentIsEntryAtPointerWitness ==
  /\ lastOp = Op("updateCurrentImagePath", "ok")
  /\ state.currentImage.path = CopyPath
  /\ state.currentHistoryIndex = 1
  /\ EntryAtPointer(state).path = "/d/b.jpg"

\* C5: undo with pointer > 0 decreases the pointer by exactly 1 and makes
\* the entry at the new pointer current; with pointer 0 or an Empty history
\* it leaves the entire state unchanged.
UndoStep ==
  [][lastOp'.name = "undo" =>
       IF state.currentHistoryIndex > 0
       THEN /\ state'.currentHistoryIndex = state.currentHistoryIndex - 1
            /\ state'.currentImage = state.imageHistory[state.currentHistoryIndex]
            /\ state' = [state EXCEPT !.currentHistoryIndex = state'.currentHistoryIndex,
                                      !.currentImage = state'.currentImage]
       ELSE state' = state /\ pending' = pending]_vars

\* an undo has moved the pointer from the last of three entries to the second
UndoStepWitness ==
  /\ lastOp = Op("undo", "ok")
  /\ Len(state.imageHistory) = 3
  /\ state.currentHistoryIndex = 1
  /\ state.currentImage = state.imageHistory[2]
  /\ state.imageHistory[2] # state.imageHistory[3]

\* C6: redo with pointer < len(entries) - 1 increases the pointer by exactly
\* 1 and makes the entry at the new pointer current; at the last entry or
\* with an Empty history it leaves the entire state unchanged.
RedoStep ==
  [][lastOp'.name = "redo" =>
       IF state.currentHistoryIndex < Len(state.imageHistory) - 1
       THEN /\ state'.currentHistoryIndex = state.currentHistoryIndex + 1
            /\ state'.currentImage = state.imageHistory[state.currentHistoryIndex + 2]
            /\ state' = [state EXCEPT !.currentHistoryIndex = state'.currentHistoryIndex,
                                      !.currentImage = state'.currentImage]
       ELSE state' = state /\ pending' = pending]_vars

\* a redo has moved the pointer from the first of three entries to the second
RedoStepWitness ==
  /\ lastOp = Op("redo", "ok")
  /\ Len(state.imageHistory) = 3
  /\ state.currentHistoryIndex = 1
  /\ state.currentImage = state.imageHistory[2]
  /\ state.imageHistory[1] # state.imageHistory[2]

\* C7: undo and redo leave imageHistory unchanged in length, order and
\* content; only a step that calls addToHistory changes the entries.
OnlyAddToHistoryChangesEntries ==
  [][/\ lastOp'.name \in {"undo", "redo"} => state'.imageHistory = state.imageHistory
     /\ state'.imageHistory # state.imageHistory => Committed']_vars

\* undone to the first entry and redone to the last, all three entries kept
OnlyAddToHistoryChangesEntriesWitness ==
  /\ lastOp = Op("redo", "ok")
  /\ Len(state.imageHistory) = MaxHist
  /\ state.currentHistoryIndex = MaxHist - 1
  /\ state.imageHistory[1] = FileImage("/d/a.png")
  /\ state.imageHistory[2] = BackendResult("rotateRight", FileImage("/d/a.png"))
  /\ state.imageHistory[3] = BackendResult("resize", state.imageHistory[2])

\* C8: addToHistory at pointer p keeps entries[0..p], discards every entry
\* after p and appends the new snapshot at index p + 1, which becomes the
\* pointer (three adds, two undos, one add: 2 entries, pointer 1).
AddToHistoryTruncatesAndAppends ==
  [][Committed' =>
       LET p == state.currentHistoryIndex
       IN /\ state'.currentHistoryIndex = p + 1
          /\ Len(state'.imageHistory) = p + 2
          /\ SubSeq(state'.imageHistory, 1, p + 1) = SubSeq(state.imageHistory, 1, p + 1)
          /\ state'.imageHistory[p + 2] = state'.currentImage
          /\ lastOp'.discarded = Len(state.imageHistory) - (p + 1)]_vars

\* the end of the scenario: the add after two undos discarded two entries
\* and left the first entry followed by the new one
AddToHistoryTruncatesAndAppendsWitness ==
  /\ Committed
  /\ lastOp.discarded = 2
  /\ Len(state.imageHistory) = 2
  /\ state.currentHistoryIndex = 1
  /\ state.imageHistory[1] = FileImage("/d/a.png")
  /\ state.currentImage = state.imageHistory[2]

logError == "HIGH"

logCritical == "CRITICAL"

\* The report made by the catch block that ended a step: the severity of the
\* entry it logged and the notification it showed.  The catch blocks of
\* ImageViewer call logError and showError for whatever was thrown; the one
\* of useImageNavigation calls setError only.
CatchReport(op) ==
  IF op.outcome \in {"failed", "violation"} /\ op.name # "nav"
  THEN [severity |-> logError, notification |-> "showError"]
  ELSE [severity |-> "none", notification |-> "none"]

\* C11: an immutability violation is surfaced distinctly from user-facing
\* operation failures (e.g. logged as critical): it never travels the
\* reporting path of a failed transform or a failed save.
ViolationSurfacedDistinctly ==
  lastOp.outcome = "violation" => CatchReport(lastOp) # CatchReport(Op("edit", "failed"))

\* ------------------------------------------------------------------------
\* Properties of overlapping handlers
\* ------------------------------------------------------------------------
\* the transform calls in flight
PendingTransforms == {i \in 1..Len(pending) : pending[i].kind = "edit"}

\* C12: at most one transform call is pending for the open image at any
\* time: a second transform cannot be started until the first has completed
\* or failed, because the controls are disabled while an edit is in flight.
AtMostOneTransformPending == Cardinality(PendingTransforms) <= 1

\* C13: once begun, every load or edit operation runs to completion or
\* failure, and afterwards isLoading is false again on every path: success,
\* transform failure, save failure and cancellation of the save dialog.
RunsToCompletion ==
  /\ [][Len(pending') < Len(pending) => ~state'.isLoading]_vars
  /\ (Len(pending) > 0) ~> (Len(pending) < MaxPending /\ ~state.isLoading)

\* a save as copy was cancelled in the file dialog and the controls are
\* enabled again
RunsToCompletionWitness ==
  /\ lastOp = Op("edit", "cancelled")
  /\ pending = <<>>
  /\ ~state.isLoading
  /\ state.error = NoError

\* C14: if the transform or the save step of an edit operation fails, the
\* current image, imageHistory and currentHistoryIndex are exactly as they
\* were and an error is reported; nothing of the edit is left in the state.
FailedEditLeavesState ==
  [][(lastOp'.name = "edit" /\ lastOp'.outcome = "failed") =>
       /\ state'.currentImage = state.currentImage
       /\ state'.imageHistory = state.imageHistory
       /\ state'.currentHistoryIndex = state.currentHistoryIndex
       /\ state'.error # NoError
       /\ CatchReport(lastOp').notification = "showError"]_vars

\* an edit of an edited image has failed: both entries and the current
\* image are in place and the error is set
FailedEditLeavesStateWitness ==
  /\ lastOp = Op("edit", "failed")
  /\ state.error # NoError
  /\ state.currentHistoryIndex = 1
  /\ state.imageHistory = <<FileImage("/d/a.png"), BackendResult("rotateRight", FileImage("/d/a.png"))>>
  /\ state.currentImage = state.imageHistory[2]

\* ------------------------------------------------------------------------
\* Properties of the crop dialog
\* ------------------------------------------------------------------------
\* the rectangle lies inside an image of the given size
InsideImage(r, imageData) ==
  /\ r.x >= 0
  /\ r.y >= 0
  /\ r.width >= 1
  /\ r.height >= 1
  /\ r.x + r.width <= imageData.width
  /\ r.y + r.height <= imageData.height

\* C15: after any sequence of move and resize drags the crop rectangle has
\* x >= 0, y >= 0, width >= 1, height >= 1, x + width <= srcWidth and
\* y + height <= srcHeight.
CropClampLaw ==
  (ui.dialog = "crop" /\ ui.touched) => InsideImage(ActualRegion(ui), ui.imageData)

\* C16: clamping is the identity on rectangles already inside the image: a
\* requested rectangle with x >= 0, y >= 0, width >= 1, height >= 1,
\* x + width <= srcWidth and y + height <= srcHeight is the clamped rectangle.
ClampIdentityInside ==
  (ui.dialog = "crop" /\ ui.touched /\ InsideImage(ui.requested, ui.imageData))
     => ui.cropRegion = ui.requested

\* C17: the rectangle submitted at confirm time is the same for the same
\* selected image region at every display scale: the default selection,
\* confirmed as it is, is submitted as the rectangle that is submitted when
\* the image is displayed at its own size.
SubmittedIndependentOfScale ==
  (ui.dialog = "crop" /\ ui.submitted # NoRegion /\ ~ui.touched)
     => ui.submitted = ActualRegion(CropDialogOpened(ui.imageData, ui.imageData.width))

CornerHandles == {"nw", "ne", "sw", "se"}

\* the corner of the rectangle opposite the handle
OppositeCorner(r, handle) ==
  CASE handle = "nw" -> [x |-> r.x + r.width, y |-> r.y + r.height]
    [] handle = "ne" -> [x |-> r.x, y |-> r.y + r.height]
    [] handle = "sw" -> [x |-> r.x + r.width, y |-> r.y]
    [] handle = "se" -> [x |-> r.x, y |-> r.y]

\* C18: while a corner handle of the crop box is dragged, the corner opposite
\* the handle stays at the image-space position it had when the drag began,
\* for every pointer position.
AnchorCornerPreserved ==
  (ui.dialog = "crop" /\ ui.isDragging /\ ui.dragHandle \in CornerHandles)
     => LET now == OppositeCorner(ui.cropRegion, ui.dragHandle)
            before == OppositeCorner(ui.initialRegion, ui.dragHandle)
        IN /\ Unscaled(ui, now.x) = Unscaled(ui, before.x)
           /\ Unscaled(ui, now.y) = Unscaled(ui, before.y)

\* ------------------------------------------------------------------------
\* Properties of the sticker dialog
\* ------------------------------------------------------------------------
\* C20: the overlay list handed to the composite call never places an overlay
\* with a larger zIndex beneath (before) one with a smaller zIndex: the list
\* given to onConfirm is in ascending zIndex order and the parameters of
\* applyStickers are in the order of that list.
OverlaysAscending ==
  ui.dialog = "sticker" =>
    /\ Len(ui.stickerParams) = Len(ui.submitted)
    /\ \A k \in 1..Len(ui.submitted) :
          ui.stickerParams[k].image_data = ui.submitted[k].imageData
    /\ \A i, j \in 1..Len(ui.submitted) :
          i < j => ui.submitted[i].zIndex <= ui.submitted[j].zIndex

\* a list was handed over in which a sticker added later lies beneath one
\* added earlier: the state array was [.., earlier, later] before the sort
OverlaysAscendingWitness ==
  /\ ui.dialog = "sticker"
  /\ \E i, j \in 1..Len(ui.submitted) :
        /\ i < j
        /\ ui.submitted[i].id > ui.submitted[j].id
        /\ ui.submitted[i].zIndex < ui.submitted[j].zIndex

Abs(a) == IF a >= 0 THEN a ELSE -a

\* a pointer delta measured in the direction in which the handle enlarges
\* the sticker: leftwards for nw and sw, upwards for nw and ne
GrowthX(handle, dx) == IF handle \in {"nw", "sw"} THEN -dx ELSE dx

GrowthY(handle, dy) == IF handle \in {"nw", "ne"} THEN -dy ELSE dy

\* a corner handle of a sticker is held and the pointer has moved
CornerResizing ==
  /\ ui.dialog = "sticker"
  /\ ui.dragState.isDragging
  /\ ui.dragState.handle \in CornerHandles
  /\ ui.lastMove.moved

\* the sticker that is being dragged, as it is in the list
DraggedSticker ==
  ui.stickers[CHOOSE k \in 1..Len(ui.stickers) :
                ui.stickers[k].id = ui.dragState.initialSticker.id]

StickersNotPersisted ==
  [][lastOp' = lastOp =>
       /\ state'.currentImage = state.currentImage
       /\ state'.imageHistory = state.imageHistory
       /\ state'.currentHistoryIndex = state.currentHistoryIndex
       /\ ui'.stickerParams = ui.stickerParams
       /\ Len(pending) = 0 => ui'.stickerParams = <<>>]_vars

\* the dialog was cancelled with the second sticker added in it, moved,
\* resized and rotated, after the first was deleted, and no handler ran
StickersNotPersistedWitness ==
  /\ ui.dialog = "closed"
  /\ lastOp = Op("init", "ok")
  /\ Len(ui.stickers) = 1
  /\ ui.stickers[1].id = 2
  /\ ui.stickers[1].x = 0
  /\ ui.stickers[1].width = MinStickerWidth
  /\ ui.stickers[1].rotation = 90
  /\ state = Opened(StickerImage)

\* ------------------------------------------------------------------------
\* Properties of the background dialog
\* ------------------------------------------------------------------------
\* a step that starts handleSetBackgroundConfirm
BackgroundIssued ==
  /\ Len(pending') = Len(pending) + 1
  /\ pending'[Len(pending')].op = "setBackground"

\* a step in which handleSetBackgroundConfirm commits its result
BackgroundCommitted ==
  /\ Len(pending') = Len(pending) - 1
  /\ lastOp'.name = "edit"
  /\ lastOp'.outcome = "ok"

\* C22: in no reachable state is a background-set transform issued for, or
\* its result committed onto, a current image whose hasAlpha is false.
BackgroundOnlyOnAlpha ==
  [][/\ BackgroundIssued =>
          /\ state.currentImage.hasAlpha
          /\ pending'[Len(pending')].call.given.hasAlpha
     /\ BackgroundCommitted => state.currentImage.hasAlpha]_vars

\* ------------------------------------------------------------------------
\* Properties of the format converter dialog
\* ------------------------------------------------------------------------
\* the formats convert_format can encode (convertFormat: "Supports
\* conversion between ...")
EncodableFormats == {"PNG", "JPEG", "GIF", "BMP", "WEBP", "TIFF", "ICO", "AVIF"}

\* onConfirm was called: a conversion is requested
ConversionRequested == ui.dialog = "convert" /\ ui.request # NoRequest

\* C23: for any interaction with the dialog and any current format, SVG and
\* HEIC included, the target format of a conversion that is performed is
\* one of PNG, JPEG, GIF, BMP, WEBP, TIFF, ICO, AVIF.
TargetIsEncodable ==
  ConversionRequested => ui.request.targetFormat \in EncodableFormats

\* a conversion was requested from the dialog with the format grid opened
\* on an SVG image, with the format the dialog started with
TargetIsEncodableWitness ==
  /\ ConversionRequested
  /\ ui.variant = "grid"
  /\ ui.currentFormat = "SVG"
  /\ ui.request.targetFormat = "PNG"

NonPositiveRequested ==
  /\ ui.request # NoResize
  /\ (ui.request.width.value <= 0 \/ ui.request.height.value <= 0)

FourTurns(op) == <<op, op, op, op>>

\* C26: after a clockwise and then a counter-clockwise rotation the current
\* image is identical to the original, and after four rotations in the
\* same direction it has the original's dimensions and content.
RotateInvolution ==
  (ui.dialog = "none" /\ Len(pending) = 0) =>
    /\ ui.turns = <<"rotateRight", "rotateLeft">> => state.currentImage = ui.original
    /\ ui.turns \in {FourTurns("rotateRight"), FourTurns("rotateLeft")} =>
         state.currentImage = ui.original

\* a 4 x 2 image was turned clockwise four times: the history holds the
\* five images, the second one 2 x 4, and the current image is the original
RotateInvolutionWitness ==
  /\ ui.dialog = "none"
  /\ ui.turns = FourTurns("rotateRight")
  /\ ui.original.width = 4
  /\ Len(pending) = 0
  /\ Len(state.imageHistory) = 5
  /\ state.imageHistory[2].width = 2
  /\ state.imageHistory[2].height = 4
  /\ state.imageHistory[3] # ui.original
  /\ state.currentImage = ui.original

\* ------------------------------------------------------------------------
\* Properties of the zoom
\* ------------------------------------------------------------------------
\* C27: after any sequence of wheel, zoom-in, zoom-out and reset actions
\* the zoom factor is within [0.5, 5], the minZoom and maxZoom the viewer
\* passes to useImageZoom.
ZoomWithinLimits ==
  ui.dialog = "viewer" => (ui.zoom >= minZoom /\ ui.zoom <= maxZoom)

\* the wheel was turned at zoom 0.6 and the zoom stopped at 0.5 instead of
\* 0.4
ZoomWithinLimitsWitness ==
  /\ ui.dialog = "viewer"
  /\ lastOp = Op("handleWheel", "ok")
  /\ ui.zoom = minZoom
  /\ ~ui.isDragging

\* C28 (counterexample): in every state in which no drag is in progress and
\* the zoom is at or below 1, the pan position is (0,0).
PanResetAtOrBelowFullSize ==
  (ui.dialog = "viewer" /\ ~ui.isDragging /\ ui.zoom <= FullSize)
     => ui.position = Origin

\* a load, or a step to the previous or next image, has made a new image the
\* current image
NewImageLoaded == lastOp'.outcome = "ok" /\ lastOp'.name \in {"load", "nav"}

\* C29 (counterexample): every step that makes a new image the current
\* image by loading it (file dialog, drag and drop, previous / next) leaves
\* the zoom at 100% and the pan position at (0,0).
LoadResetsZoom ==
  [][NewImageLoaded => (ui'.zoom = FullSize /\ ui'.position = Origin)]_vars

\* ------------------------------------------------------------------------
\* Properties of drag and drop
\* ------------------------------------------------------------------------
\* an image file is dropped on the mounted viewer, whose listener has been
\* registered without an error, while no earlier drop is in processing and
\* none was processed within the last second
DropArrives ==
  /\ lastOp'.name = "drop"
  /\ isImage(ui'.dropped)
  /\ ui.mounted
  /\ ui.dragDropListenerRegistered
  /\ ui.settingUp = 0
  /\ ~ui.isProcessingDrop
  /\ ~ui.withinSecond

\* C30 (counterexample): whatever mounts, unmounts and re-mounts of the
\* viewer came before, with or without StrictMode, a file drop makes
\* exactly one call of loadImageFromPath, and when that call has ended
\* exactly one success notification has been shown.
DropHandledOnce ==
  [][/\ DropArrives => (lastOp'.outcome = "loading" /\ Len(pending') = 1)
     /\ (ui.dialog = "dragdrop" /\ lastOp'.name = "load") => ui'.successes = 1]_vars

\* C31 (counterexample): every mount of the viewer, the ones after an
\* unmount included, leaves a drag-drop listener registered or its
\* registration under way, so that dropped files are still handled.
RemountRegistersListener ==
  [][lastOp'.name = "mount" => ui'.listeners + ui'.settingUp >= 1]_vars

\* C35: at most one drag-drop listener is registered at any time, and at
\* most one registration is under way, none while a listener is registered.
AtMostOneListener ==
  ui.dialog = "dragdrop" => ui.listeners + ui.settingUp <= 1

\* C35 (witness): the viewer is mounted again while the listener of an
\* earlier mount, which no cleanup has removed, is still registered
AtMostOneListenerWitness ==
  /\ ui.dialog = "dragdrop"
  /\ lastOp = Op("mount", "ok")
  /\ ui.listeners = 1
  /\ ui.dragDropUnlistenFn
  /\ ~ui.hasCleanup

\* ------------------------------------------------------------------------
\* Properties of directory navigation
\* ------------------------------------------------------------------------
\* C32: whenever directoryImages is not empty, currentImageIndex is an
\* index of it, navigateImage('next') steps to the following index and from
\* the last index to 0, and navigateImage('prev') steps to the preceding
\* index and from index 0 to the last.
NavigationCyclicAndIndexSafe ==
  LET n == Len(state.directoryImages)
      index == state.currentImageIndex
  IN n > 0 =>
       /\ index \in 0..(n - 1)
       /\ navigateImage(state, "next").currentImageIndex =
            (IF index = n - 1 THEN 0 ELSE index + 1)
       /\ navigateImage(state, "prev").currentImageIndex =
            (IF index = 0 THEN n - 1 ELSE index - 1)

\* C32 (witness): in the directory of three images the last image was
\* loaded and a step of directory navigation has then made the first image
\* the current image, at index 0
NavigationCyclicAndIndexSafeWitness ==
  /\ lastOp = Op("nav", "ok")
  /\ state.directoryImages = OtherListing
  /\ state.currentImageIndex = 0
  /\ state.imageHistory = <<FileImage("/e/e.jpg"), FileImage("/e/c.jpg")>>

\* ------------------------------------------------------------------------
\* Properties of stored snapshots
\* ------------------------------------------------------------------------
\* C33: a write to an object after it was passed to setCurrentImage or
\* addToHistory, or to an object deepCopyImageData returned, changes no
\* entry of imageHistory, not the current image, and not the object the
\* copy was made of.
SnapshotsIndependent ==
  [][(lastOp'.name = "mutate" /\ ui.dialog = "heap")
       => /\ state'.imageHistory = state.imageHistory
          /\ state'.currentImage = state.currentImage
          /\ \A pair \in ui.copies :
               pair[2] = ui'.mutated => ui'.heap[pair[1]] = ui.heap[pair[1]]]_vars

\* C33 (witness): an object that was passed to setCurrentImage or
\* addToHistory and a copy of it made with deepCopyImageData have both been
\* written to; the history entry and the current image still have the
\* width the image had when it was stored
SnapshotsIndependentWitness ==
  /\ ui.dialog = "heap"
  /\ lastOp = Op("mutate", "ok")
  /\ Len(state.imageHistory) = 1
  /\ state.imageHistory[1] = FileImage("/d/a.png")
  /\ state.currentImage = FileImage("/d/a.png")
  /\ \E pair \in ui.copies :
       /\ pair[1] \in ui.passed
       /\ ui.heap[pair[1]].width = MutatedWidth
       /\ ui.heap[pair[2]].width = MutatedWidth

\* ------------------------------------------------------------------------
\* Properties of the error log
\* ------------------------------------------------------------------------
\* C34: the log holds at most 100 entries, and they are the most recent
\* entries logged since the log was last cleared, in the order of arrival.
LogHoldsMostRecent ==
  ui.dialog = "logger" =>
    /\ Len(ui.logs) <= maxLogs
    /\ Len(ui.logs) = Min(maxLogs, ui.calls - ui.cleared)
    /\ \A k \in 1..Len(ui.logs) :
         ui.logs[k].arrival = ui.calls - Len(ui.logs) + k

\* C34 (witness): 103 entries were logged in a row; the log holds the 100
\* entries from the fourth to the last
LogHoldsMostRecentWitness ==
  /\ ui.dialog = "logger"
  /\ lastOp = Op("log", "ok")
  /\ ui.cleared = 0
  /\ ui.calls = maxLogs + 3
  /\ Len(ui.logs) = maxLogs
  /\ ui.logs[1].arrival = 4

\* ------------------------------------------------------------------------
\* Properties of overlapping loads and edits
\* ------------------------------------------------------------------------
\* C36 (counterexample): isLoading is true for as long as a load, a step of
\* directory navigation or an edit is in flight.
LoadingWhileInFlight == Len(pending) > 0 => state.isLoading

\* C37 (counterexample): a step in which an edit handler installs its
\* result as the current image and appends it to the history is only taken
\* when the current image is still the image the transform was computed
\* from.
EditCommittedForItsImage ==
  [][(lastOp'.name = "edit" /\ lastOp'.outcome = "ok") =>
       \E i \in 1..Len(pending) :
         /\ pending[i].kind = "edit"
         /\ pending' = Remove(pending, i)
         /\ state.currentImage = pending[i].call.given]_vars

\* C38 (counterexample): whenever a step to the previous or next image has
\* completed, with the image loaded or with a load failure, the path of the
\* current image is directoryImages[currentImageIndex].
PathMatchesIndexAfterNavigation ==
  [][lastOp'.name = "nav" =>
       state'.currentImage.path = state'.directoryImages[state'.currentImageIndex + 1]]_vars

\* ------------------------------------------------------------------------
\* Properties of save as copy
\* ------------------------------------------------------------------------
\* C39: no step of an edit confirmed with save as copy (its start, its
\* completion) changes the current image, imageHistory or
\* currentHistoryIndex, whether the copy is saved or the save dialog is
\* cancelled; a cancelled save dialog writes no file, and a saved copy
\* writes the chosen path only.
SaveAsCopyLeavesState ==
  [][(/\ ui.dialog = "files"
      /\ \/ /\ Len(pending') = Len(pending) + 1
            /\ SubSeq(pending', 1, Len(pending)) = pending
            /\ pending'[Len(pending')].kind = "edit"
            /\ pending'[Len(pending')].saveAsCopy
         \/ /\ lastOp'.name = "edit"
            /\ \E i \in 1..Len(pending) :
                 /\ pending' = Remove(pending, i)
                 /\ pending[i].kind = "edit"
                 /\ pending[i].saveAsCopy)
       => /\ state'.currentImage = state.currentImage
          /\ state'.imageHistory = state.imageHistory
          /\ state'.currentHistoryIndex = state.currentHistoryIndex
          /\ lastOp'.outcome = "cancelled" => ui'.written = ui.written
          /\ lastOp'.outcome = "copied" => ui'.saved = {CopyPath}]_vars

\* C39 (witness): after an edit of the image was saved over it, a second
\* edit was confirmed with save as copy and the save dialog was cancelled:
\* only the image's own file has been written
SaveAsCopyLeavesStateWitness ==
  /\ ui.dialog = "files"
  /\ lastOp = Op("edit", "cancelled")
  /\ Len(state.imageHistory) = 2
  /\ ui.written = {state.currentImage.path}

\* ------------------------------------------------------------------------
\* Properties of the stacking order
\* ------------------------------------------------------------------------
\* C40 (counterexample): while the sticker dialog is open, no two stickers
\* of its list have the same zIndex.
StickerZIndexUnique ==
  ui.dialog = "sticker" =>
    \A i, j \in 1..Len(ui.stickers) :
      i # j => ui.stickers[i].zIndex # ui.stickers[j].zIndex

====
